---- MODULE Spec2Model ----
(***************************************************************************)
(* Spreadsheet agent: the column resolver and plan compiler of             *)
(* backend/server.js and the step executor of Code.gs.                     *)
(*                                                                         *)
(* The specifications share the module's variables:                        *)
(*   SpecResolve  resolveColumn applied to an identifier and a header list *)
(*   SpecPlan     one POST /plan request, from classification to response  *)
(*   SpecExec     executePlan running a plan against a sheet               *)
(*   SpecDelete   executePlan running one step on every sheet              *)
(*   SpecBuild    criteria normalisation and the criteria formula builders *)
(* Each specification leaves the variables of the others at rest.          *)
(***************************************************************************)
EXTENDS Integers, Sequences, FiniteSets, TLC

VARIABLES
    rcId, rcHeaders, rcOut,                                   \* resolver
    pcp, intentResult, req, rawPlan, planCalls, insightCalls,
    built, thrown, response, classifyCalls, failure,          \* /plan handler
    sheet, plan, pcx, stepResults, successCount, lastOp,
    execResult,                                               \* executor
    fbIn, fbHeaders, fbOut,                                   \* formula building
    impactIn, impactOut,                                      \* impact estimation
    callIn, callOut,                                          \* one utility call
    registered, upc, uread, uresult                           \* getUserAccount

rvars == <<rcId, rcHeaders, rcOut>>
pvars == <<pcp, intentResult, req, rawPlan, planCalls, insightCalls,
           built, thrown, response, classifyCalls, failure>>
xvars == <<sheet, plan, pcx, stepResults, successCount, lastOp, execResult>>
fvars == <<fbIn, fbHeaders, fbOut>>
ivars == <<impactIn, impactOut>>
cvars == <<callIn, callOut>>
uvars == <<registered, upc, uread, uresult>>
vars  == <<rvars, pvars, xvars, fvars, ivars, cvars, uvars>>

(* What each group's actions leave alone. *)
notR == <<pvars, xvars, fvars, ivars, cvars, uvars>>
notP == <<rvars, xvars, fvars, ivars, cvars, uvars>>
notX == <<rvars, pvars, fvars, ivars, cvars, uvars>>
notF == <<rvars, pvars, xvars, ivars, cvars, uvars>>
notI == <<rvars, pvars, xvars, fvars, cvars, uvars>>
notC == <<rvars, pvars, xvars, fvars, ivars, uvars>>
notU == <<rvars, pvars, xvars, fvars, ivars, cvars>>

----------------------------------------------------------------------------
(* Bounds of the model *)

MaxIdLen == 3
MaxHeaders == 2
MaxItems == 2
MaxRows == 3
MaxSteps == 2

----------------------------------------------------------------------------
(* JavaScript values.  A value is a record with a type tag; strings are    *)
(* sequences of one-character strings so that trim, case folding, substring *)
(* search and parseFloat are computed character by character.              *)

Undef  == [t |-> "undefined", s |-> <<>>, n |-> 0]
Null   == [t |-> "null",      s |-> <<>>, n |-> 0]
NaN    == [t |-> "nan",       s |-> <<>>, n |-> 0]
Str(s) == [t |-> "string",    s |-> s,    n |-> 0]
Num(n) == [t |-> "number",    s |-> <<>>, n |-> n]

UpperLetters == <<"A","B","C","D","E","F","G","H","I","J","K","L","M",
                  "N","O","P","Q","R","S","T","U","V","W","X","Y","Z">>
LowerLetters == <<"a","b","c","d","e","f","g","h","i","j","k","l","m",
                  "n","o","p","q","r","s","t","u","v","w","x","y","z">>
Digits == <<"0","1","2","3","4","5","6","7","8","9">>

IsUpper(c) == \E i \in 1..26 : UpperLetters[i] = c
IsLower(c) == \E i \in 1..26 : LowerLetters[i] = c
IsLetter(c) == IsUpper(c) \/ IsLower(c)
IsDigit(c) == \E i \in 1..10 : Digits[i] = c
IsSpace(c) == c = " "

UpperChar(c) ==
    IF IsLower(c) THEN UpperLetters[CHOOSE i \in 1..26 : LowerLetters[i] = c] ELSE c
LowerChar(c) ==
    IF IsUpper(c) THEN LowerLetters[CHOOSE i \in 1..26 : UpperLetters[i] = c] ELSE c

toUpperCase(s) == [i \in 1..Len(s) |-> UpperChar(s[i])]
toLowerCase(s) == [i \in 1..Len(s) |-> LowerChar(s[i])]

RECURSIVE TrimLeft(_)
TrimLeft(s) == IF s # <<>> /\ IsSpace(Head(s)) THEN TrimLeft(Tail(s)) ELSE s
RECURSIVE TrimRight(_)
TrimRight(s) ==
    IF s # <<>> /\ IsSpace(s[Len(s)]) THEN TrimRight(SubSeq(s, 1, Len(s) - 1)) ELSE s
(* A trim that takes one space off each end. *)
trim_OneSpace(s) ==
    LET left == IF s # <<>> /\ IsSpace(Head(s)) THEN Tail(s) ELSE s
    IN IF left # <<>> /\ IsSpace(left[Len(left)]) THEN SubSeq(left, 1, Len(left) - 1) ELSE left

(* String.prototype.trim *)
trim(s) == TrimRight(TrimLeft(s))

(* Decimal text of a natural number, as Number.prototype.toString gives it. *)
RECURSIVE NatToString(_)
NatToString(n) ==
    IF n < 10 THEN <<Digits[n + 1]>> ELSE NatToString(n \div 10) \o <<Digits[(n % 10) + 1]>>

(* String(v) *)
JsString(v) ==
    CASE v.t = "string"    -> v.s
      [] v.t = "number"    -> NatToString(v.n)
      [] v.t = "undefined" -> <<"u","n","d","e","f","i","n","e","d">>
      [] v.t = "null"      -> <<"n","u","l","l">>
      [] OTHER             -> <<"N","a","N">>

(* !v : undefined, null, NaN, 0 and "" are falsy *)
Falsy(v) ==
    \/ v.t \in {"undefined", "null", "nan"}
    \/ v.t = "number" /\ v.n = 0
    \/ v.t = "string" /\ v.s = <<>>

(* All sequences over S of length at most n. *)
SeqsUpTo(S, n) == UNION {[1..k -> S] : k \in 0..n}

----------------------------------------------------------------------------
(* Column Resolver: backend/server.js resolveColumn                        *)

(* /^[A-Z]{1,2}$/i.test(idStr) *)
LetterShaped(s) == Len(s) \in {1, 2} /\ \A i \in 1..Len(s) : IsLetter(s[i])

(* headers.find(h => h.name.toLowerCase() === idStr.toLowerCase()):        *)
(* the index of the first matching header, 0 when there is none.           *)
FindHeader(idStr, headers) ==
    LET hits == {i \in 1..Len(headers) :
                    toLowerCase(headers[i].name) = toLowerCase(idStr)}
    IN IF hits = {} THEN 0 ELSE CHOOSE i \in hits : \A j \in hits : i <= j

(* A variant that looks the name up before it tests the letter shape.      *)
resolveColumn_NameFirst(identifier, headers) ==
    IF Falsy(identifier) THEN identifier
    ELSE LET idStr == trim(JsString(identifier))
             m == FindHeader(idStr, headers)
         IN IF m # 0 THEN Str(headers[m].column)
            ELSE IF LetterShaped(idStr) THEN Str(toUpperCase(idStr))
            ELSE Str(idStr)

(* headers is an array at every call site (sheetSchema?.headers || []), so *)
(* the !headers half of the first test never decides.                      *)
resolveColumn(identifier, headers) ==
    IF Falsy(identifier) THEN identifier
    ELSE LET idStr == trim(JsString(identifier))
         IN IF LetterShaped(idStr) THEN Str(toUpperCase(idStr))
            ELSE LET m == FindHeader(idStr, headers)
                 IN IF m # 0 THEN Str(headers[m].column) ELSE Str(idStr)

(* The characters with the codes 91 to 96, between 'Z' and 'a'; the grave  *)
(* accent (96) is written by its name.                                     *)
Symbols == <<"[", "\\", "]", "^", "_", "grave">>

(* String.fromCharCode(n) for the codes 65 to 122 *)
fromCharCode(n) ==
    IF n <= 90 THEN UpperLetters[n - 64]
    ELSE IF n <= 96 THEN Symbols[n - 90]
    ELSE LowerLetters[n - 96]

(* Code.gs getSheetSchema: the header at 0-based index i has column        *)
(* String.fromCharCode(65 + i).                                            *)
ColumnOfIndex(i) == <<fromCharCode(65 + i)>>

MakeHeaders(names) == [i \in 1..Len(names) |-> [name |-> names[i], column |-> ColumnOfIndex(i - 1)]]

----------------------------------------------------------------------------
(* Skill Registry: skills.json, read by backend/skills/index.js            *)
(* (allSkills).  The file itself is not among the sources; the entries are *)
(* the ones the builders and the planning prompt name.                     *)

FormulaPatterns == {"sum", "running_total"}

PatternDef(p) ==
    IF p = "sum"
    THEN [builder |-> "buildSum", required_params |-> <<"column">>, type |-> "aggregate"]
    ELSE [builder |-> "buildRunningTotal", required_params |-> <<"column", "start_row">>,
          type |-> "formula"]

CleanOperations == {"filter_data", "trim_whitespace", "convert_to_number"}

WrapWithIfError == TRUE

(* chart section: the supported types, the default type of each goal and   *)
(* the slice cap of a pie chart                                            *)
ChartSupportedTypes == {"bar", "column", "line", "pie", "scatter", "area"}
ChartGoals == {"comparison", "trend", "composition"}
ChartGoalDefault(goal) ==
    CASE goal = "comparison"  -> "bar"
      [] goal = "trend"       -> "line"
      [] OTHER                -> "pie"
PieMaxSlices == 5

(* Properties every object literal and every JSON.parse result inherits    *)
(* from Object.prototype: obj[key] finds them although obj has no such own *)
(* key.                                                                    *)
ObjectPrototypeKeys == {"constructor", "toString", "valueOf", "hasOwnProperty"}

----------------------------------------------------------------------------
(* Formula Builder: builders.js (buildSum, buildRunningTotal, wrapFormula) *)

buildSum(params) ==
    LET column == JsString(params["column"])
    IN <<"=", "S", "U", "M", "(">> \o column \o <<":">> \o column \o <<")">>

buildRunningTotal(params) ==
    LET column == JsString(params["column"])
        start_row == JsString(params["start_row"])
    IN <<"=", "S", "U", "M", "(">> \o column \o <<"$">> \o start_row \o <<":">>
          \o column \o start_row \o <<")">>

Build(builderName, params) ==
    IF builderName = "buildSum" THEN buildSum(params) ELSE buildRunningTotal(params)

wrapFormula(formula, wrap_with_iferror) ==
    IF wrap_with_iferror /\ formula # <<>> /\ Head(formula) = "="
    THEN <<"=", "I", "F", "E", "R", "R", "O", "R", "(">> \o Tail(formula)
            \o <<",", " ", "\"", "\"", ")">>
    ELSE formula

----------------------------------------------------------------------------
(* Plan Compiler: backend/server.js app.post('/plan')                      *)

(* Confidence is kept in tenths: [t |-> "number", n |-> 4] is 0.4.         *)
ConfThresholdTenths == 6

(* Number(v) for the operand of a comparison, in tenths. *)
ToNumberTenths(v) ==
    CASE v.t = "number" -> v
      [] v.t = "null"   -> Num(0)
      [] v.t = "string" ->
            LET str == trim(v.s)
            IN IF str = <<>> THEN Num(0)
               ELSE IF str = <<"1">> THEN Num(10)
               ELSE NaN
      [] OTHER          -> NaN

(* intentResult.confidence < 0.6 : false whenever an operand is NaN *)
ConfidenceBelowThreshold(conf) ==
    LET x == ToNumberTenths(conf) IN x.t = "number" /\ x.n < ConfThresholdTenths

(* confidence >= 0.6 *)
ConfidenceAtLeastThreshold(conf) ==
    LET x == ToNumberTenths(conf) IN x.t = "number" /\ x.n >= ConfThresholdTenths

NoStep == [stepNumber |-> 0, action |-> "", description |-> <<>>, params |-> <<>>]
Skip == [kind |-> "skip", step |-> NoStep, msg |-> ""]
Throw(msg) == [kind |-> "throw", step |-> NoStep, msg |-> msg]
Emit(step) == [kind |-> "step", step |-> step, msg |-> ""]

(* allSkills.formula.patterns[pattern] *)
LookupPattern(pattern) ==
    IF pattern \in FormulaPatterns THEN "own"
    ELSE IF pattern \in ObjectPrototypeKeys THEN "inherited"
    ELSE "undefined"

(* a || b *)
OrElse(a, b) == IF Falsy(a) THEN b ELSE a

(* One pass of the calcs.forEach callback, for the calculation at 0-based  *)
(* index idx.                                                              *)
CompileCalc(calc, idx, headers) ==
    LET found == LookupPattern(calc.pattern)
        patternDef == PatternDef(calc.pattern)
        required == patternDef.required_params
    IN IF found = "undefined" THEN Skip
       ELSE IF found = "inherited"
       THEN Throw("TypeError: Cannot read properties of undefined (reading 'filter')")
       ELSE IF calc.parameters.kind # "object"
       THEN Throw("TypeError: Cannot read properties of undefined")
       ELSE IF \E i \in 1..Len(required) : calc.parameters.vals[required[i]] = Undef
       THEN Skip
       ELSE
         LET vals == calc.parameters.vals
             resolvedParams ==
                 [vals EXCEPT !["column"] =
                     IF Falsy(@) THEN @ ELSE resolveColumn(@, headers)]
             formula == Build(patternDef.builder, resolvedParams)
             finalFormula == wrapFormula(formula, WrapWithIfError)
         IN IF patternDef.type = "aggregate"
            THEN Emit([stepNumber |-> idx + 1,
                       action |-> "QUERY_VALUE",
                       description |-> OrElse(calc.label, Str(<<"Querying ", calc.pattern>>)),
                       params |-> [formula |-> finalFormula,
                                   label |-> OrElse(calc.label, Str(<<calc.pattern>>))]])
            ELSE Emit([stepNumber |-> idx + 1,
                       action |-> "ADD_COLUMN",
                       description |-> Str(<<"Calculating ", calc.pattern>>),
                       params |-> [columnName |-> OrElse(vals["column_name"], Str(<<calc.pattern>>)),
                                   formula |-> finalFormula]])

(* Names (patterns, operations, operators, action tags) are strings of one *)
(* fragment, Str(<<"equals">>); their case conversions are tabulated over  *)
(* the names the model uses.                                               *)
Name(x) == Str(<<x>>)

LowerName(x) ==
    CASE x = "Greater_Than" -> "greater_than"
      [] x = "LESS"         -> "less"
      [] x = "PIE"          -> "pie"
      [] x = "Donut"        -> "donut"
      [] x = "Equals"       -> "equals"
      [] x = "CONTAINS"     -> "contains"
      [] OTHER              -> x

UpperName(x) ==
    CASE x = "sort_data"    -> "SORT_DATA"
      [] x = "format_cells" -> "FORMAT_CELLS"
      [] x = "Sort_Data"    -> "SORT_DATA"
      [] x = "highlight"    -> "HIGHLIGHT"
      [] OTHER              -> x

(* opMap[key] of the clean_data branch; the literal inherits the keys of   *)
(* Object.prototype, whose values are functions.                           *)
OpMapLookup(key) ==
    CASE key \in {"not_equal_to", "not_equal", "is_not", "!="} -> Name("not_equals")
      [] key \in {"equal_to", "is", "=="}                      -> Name("equals")
      [] key \in {"greater_than", ">"}                         -> Name("greater")
      [] key \in {"less_than", "<"}                            -> Name("less")
      [] key \in ObjectPrototypeKeys -> [t |-> "function", s |-> <<>>, n |-> 0]
      [] OTHER                                                 -> Undef

(* const params = op.parameters || op *)
ParamsOf(op) == IF op.nested THEN op.parameters ELSE op.flat

(* One pass of the clean_data operations.forEach callback (0-based index). *)
CompileCleanOp(op, index, headers) ==
    LET opName == op.operation
        params == ParamsOf(op)
        operator == params.operator
    IN IF opName \notin CleanOperations THEN Skip
       ELSE IF opName = "filter_data" /\ operator.t \notin {"string", "undefined", "null"}
       THEN Throw("TypeError: operator?.toLowerCase is not a function")
       ELSE
         LET mapped ==
                 IF opName = "filter_data"
                 THEN OrElse(IF operator.t = "string"
                             THEN OpMapLookup(LowerName(operator.s[1]))
                             ELSE OpMapLookup("undefined"),
                             operator)
                 ELSE operator
         IN Emit([stepNumber |-> index + 1,
                  action |-> IF opName = "filter_data" THEN "FILTER_DATA" ELSE "CLEAN_DATA",
                  description |-> Str(<<"Performing ", opName>>),
                  params |-> [column |-> resolveColumn(params.column, headers),
                              operation |-> opName,
                              operator |-> mapped,
                              value |-> params.value,
                              fillValue |-> params.fillValue]])

(* The operation name is absent (op.operation is undefined). *)
NoName == "<undefined>"

(* One pass of the organization operations.forEach callback. *)
CompileOrgOp(op, index, headers) ==
    LET opName == op.operation
        params == ParamsOf(op)
    IN IF opName = NoName
       THEN Throw("TypeError: Cannot read properties of undefined (reading 'toUpperCase')")
       ELSE Emit([stepNumber |-> index + 1,
                  action |-> UpperName(opName),
                  description |-> Str(<<"Performing ", opName>>),
                  params |-> [params EXCEPT !.column =
                                 IF Falsy(@) THEN @ ELSE resolveColumn(@, headers)]])

(* items.forEach(callback): the steps pushed so far, and whether a pass    *)
(* threw (which ends the loop).                                            *)
(* What one callback leaves behind: nothing, the error, or one more step. *)
Accumulate(acc, r) ==
    CASE r.kind = "skip"  -> acc
      [] r.kind = "throw" -> [acc EXCEPT !.thrown = TRUE, !.msg = r.msg]
      [] OTHER -> [acc EXCEPT !.steps = Append(@, r.step)]

RECURSIVE ForEach(_, _, _, _, _)
ForEach(kind, items, i, headers, acc) ==
    IF i > Len(items) \/ acc.thrown THEN acc
    ELSE ForEach(kind, items, i + 1, headers,
                 Accumulate(acc,
                     CASE kind = "formula"    -> CompileCalc(items[i], i - 1, headers)
                       [] kind = "clean_data" -> CompileCleanOp(items[i], i - 1, headers)
                       [] OTHER               -> CompileOrgOp(items[i], i - 1, headers)))

NoSteps == [steps |-> <<>>, thrown |-> FALSE, msg |-> "", summary |-> <<>>]

(* allSkills.chart.goals[chartGoal]: the goal's default type, undefined    *)
(* when the goal has no entry of its own.                                  *)
GoalDefaultType(chartGoal) ==
    IF chartGoal.t = "string" /\ chartGoal.s[1] \in ChartGoals
    THEN Name(ChartGoalDefault(chartGoal.s[1]))
    ELSE Undef

(* A choice that lets the raw plan's type win over the classification's. *)
ChooseChartType_PlanFirst(classified, planned, chartGoal) ==
    LET explicit == OrElse(planned, classified)
    IN OrElse(IF Falsy(explicit) THEN GoalDefaultType(chartGoal) ELSE explicit,
              Name("column"))

(* server.js 243-249: the type before lower-casing and validation. *)
ChooseChartType(classified, planned, chartGoal) ==
    LET explicit == OrElse(classified, planned)
    IN OrElse(IF Falsy(explicit) THEN GoalDefaultType(chartGoal) ELSE explicit,
              Name("column"))

(* A type the registry does not support becomes 'column'. *)
ValidChartType(lowered, supported) == IF lowered \in supported THEN lowered ELSE "column"

(* A pie chart of more series than the slice cap becomes a bar chart. *)
PieRule(valid, seriesCount) ==
    IF valid = "pie" /\ seriesCount > PieMaxSlices THEN "bar" ELSE valid

(* The one CREATE_CHART step of the chart branch. *)
ChartSteps(chartType, rp, resolvedX, resolvedY) ==
    [steps |-> <<[stepNumber |-> 1,
                  action |-> "CREATE_CHART",
                  description |-> Str(<<"Creating ", chartType, " chart for ">>
                                      \o JsString(rp.chart_goal)),
                  params |-> [chartType |-> chartType,
                              title |-> OrElse(rp.title, Str(<<"prompt">>)),
                              xAxisColumn |-> resolvedX,
                              seriesColumns |-> resolvedY]]>>,
     thrown |-> FALSE, msg |-> "", summary |-> <<"Creating a ", chartType, " chart.">>]

(* The chart branch for the type chosen: it is lower-cased, validated and  *)
(* put through the pie rule.                                               *)
ChartOf(chosen, rp, headers) ==
    IF chosen.t # "string"
    THEN [NoSteps EXCEPT !.thrown = TRUE,
                         !.msg = "TypeError: (chartType || 'column').toLowerCase is not a function"]
    ELSE ChartSteps(PieRule(ValidChartType(LowerName(chosen.s[1]), ChartSupportedTypes),
                            IF rp.yIsArray THEN Len(rp.y_columns) ELSE 0),
                    rp,
                    resolveColumn(rp.x_column, headers),
                    IF rp.yIsArray
                    THEN [i \in 1..Len(rp.y_columns) |-> resolveColumn(rp.y_columns[i], headers)]
                    ELSE <<>>)

(* The chart branch: one CREATE_CHART step. *)
CompileChart(ir, rp, headers) ==
    ChartOf(ChooseChartType(ir.explicit_chart_type, rp.explicit_chart_type, rp.chart_goal),
            rp, headers)

(* The branch's summary, set once its loop has ended without an error. *)
WithSummary(acc, summary) == IF acc.thrown THEN acc ELSE [acc EXCEPT !.summary = summary]

(* The try block of the handler (STEP 5 & 6 & 7) for one intent and one    *)
(* raw plan: the local steps and summary, and the error thrown if any.     *)
BuildSteps(ir, rp, headers) ==
    LET intent == ir.intent IN
    CASE intent = "formula" ->
            IF rp.calcsKind = "other"
            THEN [NoSteps EXCEPT !.thrown = TRUE,
                                 !.msg = IF rp.pattern # ""
                                         THEN "TypeError: calcs.push is not a function"
                                         ELSE "TypeError: calcs.forEach is not a function"]
            ELSE WithSummary(ForEach("formula",
                                     IF rp.calcsKind = "array" THEN rp.calculations ELSE <<>>,
                                     1, headers, NoSteps),
                             <<"Performing calculations.">>)
      [] intent \in {"clean_data", "organization"} ->
            IF ~rp.opsIsArray
            THEN [NoSteps EXCEPT !.thrown = TRUE,
                                 !.msg = IF intent = "clean_data"
                                         THEN "Invalid clean_data operations format"
                                         ELSE "Invalid organization operations format"]
            ELSE WithSummary(ForEach(intent, rp.operations, 1, headers, NoSteps),
                             IF intent = "clean_data" THEN <<"Cleaning sheet data.">>
                             ELSE <<"Organizing sheet data.">>)
      [] intent = "chart" -> CompileChart(ir, rp, headers)
      [] OTHER -> NoSteps

(* A catch block that hands back the steps built before the error.         *)
ValErrorResponse_KeepSteps(steps, msg) ==
    [status |-> 200, success |-> FALSE,
     answer |-> Str(<<"I couldn't complete that: ", msg>>), steps |-> steps]

(* catch (valError): the steps built so far are dropped. *)
ValErrorResponse(steps, msg) ==
    [status |-> 200, success |-> FALSE,
     answer |-> Str(<<"I couldn't complete that: ", msg>>), steps |-> <<>>]

OkResponse(answer, steps) ==
    [status |-> 200, success |-> TRUE, answer |-> answer, steps |-> steps]

ClarifyResponse ==
    [status |-> 200, success |-> FALSE,
     answer |-> Str(<<"I'm not sure what you want to do. Could you be more specific?">>),
     steps |-> <<>>]

BadRequestResponse ==
    [status |-> 400, success |-> FALSE, answer |-> Undef, steps |-> <<>>]

(* The outer catch: status 500, an error text and no plan. *)
ServerErrorResponse ==
    [status |-> 500, success |-> FALSE, answer |-> Undef, steps |-> <<>>]

(* A raw plan without a top-level parameters field. *)
NoParameters ==
    [kind |-> "undefined", vals |-> [column |-> Undef, start_row |-> Undef, column_name |-> Undef]]

NoIntent == [intent |-> "", confidence |-> Undef, explicit_chart_type |-> Undef]
NoRawPlan ==
    [calcsKind |-> "absent", calculations |-> <<>>, opsIsArray |-> FALSE,
     operations |-> <<>>, conversational_answer |-> Undef,
     chart_goal |-> Undef, explicit_chart_type |-> Undef, x_column |-> Undef,
     yIsArray |-> FALSE, y_columns |-> <<>>, title |-> Undef,
     pattern |-> "", parameters |-> NoParameters]
NoResponse == [status |-> 0, success |-> FALSE, answer |-> Undef, steps |-> <<>>]

----------------------------------------------------------------------------
(* Step Executor: Code.gs                                                  *)
(*                                                                         *)
(* The sheet is the sequence of its rows down to the last row with         *)
(* content; a row is the sequence of its cells; the empty cell is ''.      *)

EmptyCell == Str(<<>>)

HeaderScanLimit == 10
HighImpactPercent == 50

Min(a, b) == IF a < b THEN a ELSE b

(* sheet.getLastRow(): the last row that holds a value, 0 on a blank sheet *)
getLastRow(sh) ==
    LET filled == {r \in 1..Len(sh) : \E c \in 1..Len(sh[r]) : sh[r][c] # EmptyCell}
    IN IF filled = {} THEN 0 ELSE CHOOSE r \in filled : \A q \in filled : q <= r

(* sheet.getDataRange().getValues(): a blank sheet gives one empty cell *)
getDataValues(sh) == IF getLastRow(sh) = 0 THEN <<<<EmptyCell>>>> ELSE SubSeq(sh, 1, getLastRow(sh))

(* cell !== '' && cell !== null && typeof cell === 'string' *)
NonEmptyStringCount(row) ==
    Cardinality({c \in 1..Len(row) : row[c].t = "string" /\ row[c] # EmptyCell})

(* detectHeaderRow: 0-based index of the first row, among the first ten,   *)
(* with the most non-empty string cells.                                   *)
RECURSIVE DetectFrom(_, _, _, _, _)
DetectFrom(values, i, limit, maxNonEmpty, bestRow) ==
    IF i >= limit THEN bestRow
    ELSE LET nonEmptyCount == NonEmptyStringCount(values[i + 1])
         IN IF nonEmptyCount > maxNonEmpty
            THEN DetectFrom(values, i + 1, limit, nonEmptyCount, i)
            ELSE DetectFrom(values, i + 1, limit, maxNonEmpty, bestRow)

(* A scan of every row of the grid. *)
detectHeaderRow_NoLimit(values) == DetectFrom(values, 0, Len(values), 0, 0)

(* const limit = Math.min(values.length, 10), then the scan from row 0 *)
detectHeaderRow(values) == DetectFrom(values, 0, Min(Len(values), HeaderScanLimit), 0, 0)

(* charCodeAt for the characters of the model *)
CharCode(c) ==
    IF IsUpper(c) THEN 64 + (CHOOSE i \in 1..26 : UpperLetters[i] = c)
    ELSE IF IsLower(c) THEN 96 + (CHOOSE i \in 1..26 : LowerLetters[i] = c)
    ELSE IF IsDigit(c) THEN 47 + (CHOOSE i \in 1..10 : Digits[i] = c)
    ELSE IF \E i \in 1..6 : Symbols[i] = c THEN 90 + (CHOOSE i \in 1..6 : Symbols[i] = c)
    ELSE 32

RECURSIVE LetterFold(_, _, _)
LetterFold(upper, i, result) ==
    IF i > Len(upper) THEN result
    ELSE LetterFold(upper, i + 1, result * 26 + CharCode(upper[i]) - 64)

(* columnLetterToIndex (A = 1, B = 2, ...); a missing letter gives 1 *)
columnLetterToIndex(letter) ==
    IF Falsy(letter) THEN 1 ELSE LetterFold(toUpperCase(letter.s), 1, 0)

(* The value of cell (r, col); cells right of the data are empty. *)
CellAt(sh, r, col) == IF col <= Len(sh[r]) THEN sh[r][col] ELSE EmptyCell

(* getRange(startRow, col, numRows, 1).getValues(), one value per row *)
ColumnValues(sh, startRow, col, numRows) ==
    [i \in 1..numRows |-> CellAt(sh, startRow + i - 1, col)]

(* sheet.deleteRow(r): the rows below move up by one *)
deleteRow(sh, r) ==
    IF r \in 1..Len(sh) THEN SubSeq(sh, 1, r - 1) \o SubSeq(sh, r + 1, Len(sh)) ELSE sh

(* rows.forEach(row => sheet.deleteRow(row)) *)
RECURSIVE DeleteEach(_, _)
DeleteEach(sh, rows) ==
    IF rows = <<>> THEN sh ELSE DeleteEach(deleteRow(sh, Head(rows)), Tail(rows))

(* A sort step left out: the rows stay in the order they were collected.   *)
SortDescending_Missing(rows) == rows

(* rowsToDelete.sort((a, b) => b - a) *)
RECURSIVE SortDescending(_)
SortDescending(rows) ==
    IF rows = <<>> THEN <<>>
    ELSE LET m == CHOOSE i \in 1..Len(rows) : \A j \in 1..Len(rows) : rows[j] <= rows[i]
         IN <<rows[m]>> \o SortDescending(SubSeq(rows, 1, m - 1) \o SubSeq(rows, m + 1, Len(rows)))

(* haystack.includes(needle) *)
Includes(haystack, needle) ==
    \E k \in 0..(Len(haystack) - Len(needle)) :
        SubSeq(haystack, k + 1, k + Len(needle)) = needle

RECURSIVE DigitsValue(_, _)
DigitsValue(str, acc) ==
    IF str = <<>> \/ ~IsDigit(Head(str)) THEN acc
    ELSE DigitsValue(Tail(str), acc * 10 + CharCode(Head(str)) - 48)

(* parseFloat(v): the leading digits of String(v), NaN when there are none *)
(* (the strings of the model hold no sign, point or exponent).             *)
parseFloat(v) ==
    IF v.t = "number" THEN v
    ELSE LET str == TrimLeft(JsString(v))
         IN IF str = <<>> \/ ~IsDigit(Head(str)) THEN NaN ELSE Num(DigitsValue(str, 0))

(* a > b and a < b on numbers: false when either side is NaN *)
NumGreater(a, b) == a.t = "number" /\ b.t = "number" /\ a.n > b.n
NumLess(a, b) == a.t = "number" /\ b.t = "number" /\ a.n < b.n

(* val === '' || val === null *)
IsBlank(val) == val = EmptyCell \/ val = Null

(* filterData's isMatch for one cell *)
isMatch(operator, value, val) ==
    LET checkVal == IF IsBlank(val) THEN <<>> ELSE trim(toLowerCase(JsString(val)))
        paramVal == trim(toLowerCase(JsString(value)))
        op == IF operator.t = "string" THEN operator.s[1] ELSE ""
    IN CASE op = "equals"       -> checkVal = paramVal
         [] op = "not_equals"   -> checkVal # paramVal
         [] op = "contains"     -> Includes(checkVal, paramVal)
         [] op = "not_contains" -> ~Includes(checkVal, paramVal)
         [] op = "greater"      -> NumGreater(parseFloat(val), parseFloat(value))
         [] op = "less"         -> NumLess(parseFloat(val), parseFloat(value))
         [] op = "empty"        -> IsBlank(val)
         [] op = "not_empty"    -> ~IsBlank(val)
         [] OTHER               -> FALSE

(* The positions i (1-based) of checkValues that satisfy Keep, as the rows *)
(* startRow + i - 1, in the order push or unshift leaves them.             *)
RECURSIVE Collect(_, _, _, _)
Collect(marks, startRow, i, front) ==
    IF i > Len(marks) THEN <<>>
    ELSE LET rest == Collect(marks, startRow, i + 1, front)
             here == IF marks[i] THEN <<startRow + i - 1>> ELSE <<>>
         IN IF front THEN rest \o here ELSE here \o rest

(* (deleted / total * 100).toFixed(1), in tenths of a percent: the nearest *)
(* tenth, the larger one at a tie                                          *)
ImpactTenths(deleted, total) ==
    IF total > 0 THEN (2000 * deleted + total) \div (2 * total) ELSE 0

HighImpact(deleted, total) == ImpactTenths(deleted, total) > HighImpactPercent * 10

NoOp == [action |-> "", threw |-> FALSE, selected |-> <<>>, deleted |-> <<>>,
         before |-> <<>>, startRow |-> 0]

(* A handler's message: its text, the row count it reports and whether it  *)
(* carries the high-impact warning.                                        *)
Msg(text, count, warn) == [text |-> text, count |-> count, warn |-> warn]

Returned(sh, msg, selected, deleted, startRow) ==
    [threw |-> FALSE, sheet |-> sh, result |-> msg, selected |-> selected,
     deleted |-> deleted, startRow |-> startRow]
Threw(sh, msg) ==
    [threw |-> TRUE, sheet |-> sh, result |-> msg, selected |-> <<>>,
     deleted |-> <<>>, startRow |-> 0]

(* filterData: the rows that do not match are deleted, bottom to top.      *)
(* getRange throws when asked for fewer than one row.                      *)
filterData(sh, params) ==
    LET col == columnLetterToIndex(params.column)
        lastRow == getLastRow(sh)
        startRow == detectHeaderRow(getDataValues(sh)) + 2
        numRows == lastRow - startRow + 1
    IN IF numRows < 1
       THEN Threw(sh, Msg("Failed to filter data: The number of rows in the range must be at least 1.", 0, FALSE))
       ELSE
         LET checkValues == ColumnValues(sh, startRow, col, numRows)
             marks == [i \in 1..numRows |-> ~isMatch(params.operator, params.value, checkValues[i])]
             rowsToDelete == Collect(marks, startRow, 1, FALSE)
             sorted == SortDescending(rowsToDelete)
         IN IF rowsToDelete = <<>>
            THEN Returned(sh, Msg("No rows found where ", 0, FALSE), <<>>, <<>>, startRow)
            ELSE Returned(DeleteEach(sh, sorted),
                          Msg("Kept rows where ", Len(rowsToDelete),
                              HighImpact(Len(rowsToDelete), numRows)),
                          rowsToDelete, sorted, startRow)

(* The occurrence kept is the last one, not the first. *)
IsDuplicateAt_KeepLast(keys, i) == \E j \in (i + 1)..Len(keys) : keys[j] = keys[i]

(* seen.has(key) at position i of the scan: every key before i is in the   *)
(* set, either added at its position or already there.                     *)
IsDuplicateAt(keys, i) == \E j \in 1..(i - 1) : keys[j] = keys[i]

(* deleteRows: the rows that meet the condition (empty, equals, duplicate) *)
(* are deleted, bottom to top.                                             *)
deleteRows(sh, params) ==
    LET col == columnLetterToIndex(params.column)
        lastRow == getLastRow(sh)
        startRow == detectHeaderRow(getDataValues(sh)) + 2
        numRows == lastRow - startRow + 1
    IN IF numRows < 1
       THEN Threw(sh, Msg("The number of rows in the range must be at least 1.", 0, FALSE))
       ELSE
         LET checkValues == ColumnValues(sh, startRow, col, numRows)
             keys == [i \in 1..numRows |-> toLowerCase(JsString(checkValues[i]))]
             paramVal == toLowerCase(JsString(params.value))
             cond == IF params.condition.t = "string" THEN params.condition.s[1] ELSE ""
             marks == [i \in 1..numRows |->
                         CASE cond = "empty"     -> IsBlank(checkValues[i])
                           [] cond = "equals"    -> keys[i] = paramVal
                           [] cond = "duplicate" -> IsDuplicateAt(keys, i)
                           [] OTHER              -> FALSE]
             rowsToDelete == Collect(marks, startRow, 1, TRUE)
             sorted == SortDescending(rowsToDelete)
         IN IF rowsToDelete = <<>>
            THEN Returned(sh, Msg("No matching rows found to delete", 0, FALSE), <<>>, <<>>, startRow)
            ELSE Returned(DeleteEach(sh, sorted),
                          Msg("Deleted ", Len(rowsToDelete),
                              HighImpact(Len(rowsToDelete), numRows)),
                          rowsToDelete, sorted, startRow)

(* One row with cell col set to v; the row grows when col lies right of it. *)
SetCell(row, col, v) ==
    [c \in 1..(IF col > Len(row) THEN col ELSE Len(row)) |->
        IF c = col THEN v ELSE IF c <= Len(row) THEN row[c] ELSE EmptyCell]

(* range.setValues(vals) on the range getRange(startRow, col, Len(vals), 1) *)
SetColumn(sh, startRow, col, vals) ==
    [r \in 1..Len(sh) |->
        IF r \in startRow..(startRow + Len(vals) - 1)
        THEN SetCell(sh[r], col, vals[r - startRow + 1])
        ELSE sh[r]]

(* new Date(val), kept as the text it was built from *)
DateOf(val) == [t |-> "date", s |-> JsString(val), n |-> 0]

(* sheet.getRange(2, col, lastRow - 1, 1): the range starts at row 2 *)
ConvertStartRow(sh) == 2

(* convertDataType: every cell of the column from the start row down to    *)
(* the last row is rewritten in the target type.                           *)
convertDataType(sh, params) ==
    LET col == columnLetterToIndex(params.column)
        lastRow == getLastRow(sh)
        startRow == ConvertStartRow(sh)
        numRows == lastRow - startRow + 1
        toType == IF params.toType.t = "string" THEN params.toType.s[1] ELSE ""
    IN IF numRows < 1
       THEN Threw(sh, Msg("The number of rows in the range must be at least 1.", 0, FALSE))
       ELSE
         LET values == ColumnValues(sh, startRow, col, numRows)
             converted ==
                 [i \in 1..numRows |->
                     CASE toType = "number" ->
                              (IF Falsy(parseFloat(values[i])) THEN Num(0)
                               ELSE parseFloat(values[i]))
                       [] toType = "string" -> Str(JsString(values[i]))
                       [] toType = "date"   -> DateOf(values[i])
                       [] OTHER             -> values[i]]
         IN Returned(SetColumn(sh, startRow, col, converted),
                     Msg("Converted column ", 0, FALSE), <<>>, <<>>, startRow)

(* String(v).replace(/[$,]/g, '') *)
StripMoney(str) == SelectSeq(str, LAMBDA c : c \notin {"$", ","})

(* cleanData: every data cell of the column is rewritten by the operation. *)
cleanData(sh, params) ==
    LET col == columnLetterToIndex(params.column)
        lastRow == getLastRow(sh)
        startRow == detectHeaderRow(getDataValues(sh)) + 2
        numRows == lastRow - startRow + 1
        operation == IF params.operation.t = "string" THEN params.operation.s[1] ELSE ""
    IN IF numRows < 1
       THEN Threw(sh, Msg("The number of rows in the range must be at least 1.", 0, FALSE))
       ELSE
         LET checkValues == ColumnValues(sh, startRow, col, numRows)
             num(v) == parseFloat(Str(StripMoney(JsString(v))))
             cleaned ==
                 [i \in 1..numRows |->
                     LET v == checkValues[i]
                     IN CASE operation \in {"trim", "trim_whitespace"} -> Str(trim(JsString(v)))
                          [] operation = "uppercase" -> Str(toUpperCase(JsString(v)))
                          [] operation = "lowercase" -> Str(toLowerCase(JsString(v)))
                          [] operation = "convert_to_number" ->
                                 (IF num(v).t = "nan" THEN v ELSE num(v))
                          [] operation = "fill_missing_values" ->
                                 (IF IsBlank(v)
                                  THEN (IF Falsy(params.fillValue) THEN Num(0)
                                        ELSE params.fillValue)
                                  ELSE v)
                          [] OTHER -> v]
         IN Returned(SetColumn(sh, startRow, col, cleaned),
                     Msg("Cleaned column ", 0, FALSE), <<>>, <<>>, startRow)

(* sheet.deleteColumn(col): in every row the cells right of col move left  *)
deleteColumnAt(sh, col) ==
    [r \in 1..Len(sh) |->
        IF col \in 1..Len(sh[r])
        THEN SubSeq(sh[r], 1, col - 1) \o SubSeq(sh[r], col + 1, Len(sh[r]))
        ELSE sh[r]]

(* deleteColumn: the column the letter names is removed from the sheet.    *)
deleteColumn(sh, params) ==
    LET col == columnLetterToIndex(params.column)
    IN Returned(deleteColumnAt(sh, col), Msg("Deleted column ", 0, FALSE), <<>>, <<>>, 0)

(* executeAction: dispatch on the action tag *)
Dispatch(sh, action, params) ==
    CASE action = "FILTER_DATA" -> filterData(sh, params)
      [] action = "DELETE_ROWS" -> deleteRows(sh, params)
      [] action = "CONVERT_DATATYPE" -> convertDataType(sh, params)
      [] action = "CLEAN_DATA" -> cleanData(sh, params)
      [] action = "DELETE_COLUMN" -> deleteColumn(sh, params)
      [] OTHER -> Threw(sh, Msg("Error: Unknown action: ", 0, FALSE))

(* A step without an action field carries this in its place. *)
NoAction == "<no action>"

(* The action and params executeAction works with.  step.keys lists the    *)
(* step's own keys other than stepNumber, description, action and params,  *)
(* in insertion order, with their values: when the step has neither action *)
(* nor params, the first of them names the action and holds the params.    *)
ResolveStep(step) ==
    IF step.action = NoAction /\ step.params = Undef /\ step.keys # <<>>
    THEN [action |-> step.keys[1].key, params |-> step.keys[1].value]
    ELSE [action |-> step.action, params |-> step.params]

executeAction(sh, step) ==
    Dispatch(sh, ResolveStep(step).action, ResolveStep(step).params)

(* The tags executeAction has a case for, among those of the model. *)
HandledActions ==
    {"FILTER_DATA", "DELETE_ROWS", "CONVERT_DATATYPE", "CLEAN_DATA", "DELETE_COLUMN"}

NoResult == [returned |-> FALSE, empty |-> TRUE, successCount |-> 0, total |-> 0,
             stepResults |-> <<>>]

----------------------------------------------------------------------------
(* Rest values: what a specification gives the variables it does not use.  *)

RRest == rcId = Undef /\ rcHeaders = <<>> /\ rcOut = [done |-> FALSE, v |-> Undef]
XRest ==
    /\ sheet = <<>> /\ plan = <<>> /\ pcx = 0 /\ stepResults = <<>>
    /\ successCount = 0 /\ lastOp = NoOp /\ execResult = NoResult
FRest == fbIn = <<>> /\ fbHeaders = <<>> /\ fbOut = <<>>
NoImpact == [done |-> FALSE, tenths |-> 0, warn |-> FALSE]
IRest == impactIn = <<>> /\ impactOut = NoImpact
NoCall == [done |-> FALSE]
CRest == callIn = <<>> /\ callOut = NoCall
URest == registered = <<>> /\ upc = <<>> /\ uread = <<>> /\ uresult = <<>>
PRest ==
    /\ pcp = "rest" /\ intentResult = NoIntent /\ req = <<>> /\ rawPlan = NoRawPlan
    /\ planCalls = 0 /\ insightCalls = 0 /\ built = <<>> /\ thrown = FALSE
    /\ response = NoResponse /\ classifyCalls = 0 /\ failure = "none"

----------------------------------------------------------------------------
(* SpecResolve: resolveColumn on every identifier and header list of the   *)
(* bounds.                                                                 *)

IdChars == {"a", "B", "1", " "}
HeaderNames == {<<"A">>, <<"b", "a">>, <<"b", "1">>, <<"1", " ", "a">>}

Identifiers == {Undef, Null} \cup {Str(s) : s \in SeqsUpTo(IdChars, MaxIdLen)}
HeaderLists == {MakeHeaders(names) : names \in SeqsUpTo(HeaderNames, MaxHeaders)}

InitResolve ==
    /\ rcId \in Identifiers
    /\ rcHeaders \in HeaderLists
    /\ rcOut = [done |-> FALSE, v |-> Undef]
    /\ PRest /\ XRest /\ FRest /\ IRest /\ CRest /\ URest

ResolveCall ==
    /\ ~rcOut.done
    /\ rcOut' = [done |-> TRUE, v |-> resolveColumn(rcId, rcHeaders)]
    /\ UNCHANGED <<rcId, rcHeaders, notR>>

NextResolve == ResolveCall

SpecResolve == InitResolve /\ [][NextResolve]_vars

(* The identifier is a string of one or two letters. *)
IdIsLetters == rcId.t = "string" /\ LetterShaped(rcId.s)

(* The headers whose name equals the identifier, compared case-insensitively. *)
NameHits ==
    {i \in 1..Len(rcHeaders) :
        rcId.t = "string" /\ toLowerCase(rcHeaders[i].name) = toLowerCase(rcId.s)}

(* C9: an identifier of one or two letters is returned upper-cased, whatever *)
(* the header names are.                                                   *)
C9_LetterPrecedence ==
    (rcOut.done /\ IdIsLetters) => rcOut.v = Str(toUpperCase(rcId.s))

(* A letter-shaped identifier that is also the name of a header in another *)
(* column has been resolved.                                               *)
C9_Witness ==
    /\ rcOut.done /\ IdIsLetters
    /\ \E i \in NameHits : rcHeaders[i].column # toUpperCase(rcId.s)

(* C10: an identifier that is not letter-shaped resolves to the column of  *)
(* the header it names (case-insensitively) and, when it names none, comes *)
(* back as the very value that was passed in.                              *)
C10_NameOrOriginal ==
    (rcOut.done /\ ~IdIsLetters) =>
        IF NameHits # {}
        THEN \E i \in NameHits : rcOut.v = Str(rcHeaders[i].column)
        ELSE rcOut.v = rcId

----------------------------------------------------------------------------
(* SpecPlan: one POST /plan request.  The classification result and the    *)
(* raw plan are the collaborators' answers, drawn from the sets below.     *)

ReqHeaders == {<<>>, MakeHeaders(<<<<"A">>, <<"b", "1">>>>)}
Requests == [prompt : BOOLEAN, headers : ReqHeaders]

Intents == {"formula", "insight", "clean_data", "organization", "unknown"}
Confidences == {Num(4), Num(6), Undef, Null, Str(<<"h", "i", "g", "h">>)}
ClassifiedChartTypes == {Undef, Name("PIE"), Name("Donut")}
IntentResults ==
    {[intent |-> i, confidence |-> c, explicit_chart_type |-> Undef] :
        i \in Intents, c \in Confidences}
    \cup {[intent |-> "chart", confidence |-> c, explicit_chart_type |-> t] :
            c \in Confidences, t \in ClassifiedChartTypes}

Params(col, sr) ==
    [kind |-> "object", vals |-> [column |-> col, start_row |-> sr, column_name |-> Undef]]
NoParams == NoParameters
Calc(pattern, parameters, label) ==
    [pattern |-> pattern, parameters |-> parameters, label |-> label]

CalcItems ==
    {Calc("sum", Params(c, Undef), Undef) : c \in {Undef, Str(<<"B">>), Str(<<"b", "1">>)}}
    \cup {Calc("sum", Params(Str(<<"B">>), Undef), Str(<<"Total">>)),
          Calc("sum", NoParams, Undef),
          Calc("running_total", Params(Str(<<"B">>), Undef), Undef),
          Calc("running_total", Params(Str(<<"B">>), Num(2)), Undef),
          Calc("bogus", Params(Str(<<"B">>), Undef), Undef),
          Calc("constructor", Params(Str(<<"B">>), Undef), Undef)}

CleanParams(col, operator, value) ==
    [column |-> col, operator |-> operator, value |-> value, fillValue |-> Undef]
FlatOp(operation, params) ==
    [operation |-> operation, nested |-> FALSE, parameters |-> params, flat |-> params]
NestedOp(operation, params) ==
    [operation |-> operation, nested |-> TRUE, parameters |-> params, flat |-> params]

CleanItems ==
    {FlatOp("filter_data", CleanParams(Str(<<"b", "1">>), Name("=="), Str(<<"p">>))),
     FlatOp("filter_data", CleanParams(Str(<<"B">>), Name("Greater_Than"), Num(5))),
     NestedOp("filter_data", CleanParams(Str(<<"B">>), Name("between"), Num(5))),
     FlatOp("filter_data", CleanParams(Str(<<"B">>), Num(5), Num(5))),
     FlatOp("trim_whitespace", CleanParams(Str(<<"a">>), Undef, Undef)),
     FlatOp("remove_duplicates", CleanParams(Str(<<"B">>), Undef, Undef)),
     FlatOp(NoName, CleanParams(Undef, Undef, Undef))}

OrgParams(operation, col, order, range, format) ==
    [operation |-> operation, column |-> col, order |-> order, range |-> range,
     format |-> format]

OrgItems ==
    {FlatOp("sort_data", OrgParams(Name("sort_data"), Str(<<"b", "1">>), Name("asc"), Undef, Undef)),
     NestedOp("Sort_Data", OrgParams(Undef, Str(<<"a">>), Name("desc"), Undef, Undef)),
     FlatOp("format_cells", OrgParams(Name("format_cells"), Undef, Undef, Name("A1:B4"), Name("currency"))),
     FlatOp("highlight", OrgParams(Name("highlight"), Undef, Undef, Undef, Undef)),
     FlatOp(NoName, OrgParams(Undef, Str(<<"B">>), Name("asc"), Undef, Undef))}

Answers == {Undef, Str(<<"Done.">>)}

PlannedChartGoals == {Undef, Name("trend"), Name("composition"), Name("constructor")}
PlannedChartTypes == {Undef, Str(<<>>), Name("pie"), Name("line"), Name("Donut")}
SeriesCounts == {0, 1, PieMaxSlices, PieMaxSlices + 1}

RawPlans(intent) ==
    CASE intent = "formula" ->
            {[NoRawPlan EXCEPT !.calcsKind = "array", !.calculations = cs,
                               !.conversational_answer = a] :
                cs \in SeqsUpTo(CalcItems, MaxItems), a \in Answers}
            \cup {NoRawPlan, [NoRawPlan EXCEPT !.calcsKind = "other"]}
            \cup {[NoRawPlan EXCEPT !.calcsKind = k, !.pattern = c.pattern,
                                    !.parameters = c.parameters] :
                     k \in {"absent", "other"}, c \in CalcItems}
      [] intent = "clean_data" ->
            {[NoRawPlan EXCEPT !.opsIsArray = TRUE, !.operations = ops,
                               !.conversational_answer = a] :
                ops \in SeqsUpTo(CleanItems, MaxItems), a \in Answers}
            \cup {NoRawPlan}
      [] intent = "organization" ->
            {[NoRawPlan EXCEPT !.opsIsArray = TRUE, !.operations = ops,
                               !.conversational_answer = a] :
                ops \in SeqsUpTo(OrgItems, MaxItems), a \in Answers}
            \cup {NoRawPlan}
      [] intent = "chart" ->
            {[NoRawPlan EXCEPT !.chart_goal = g, !.explicit_chart_type = t,
                               !.x_column = Str(<<"A">>), !.yIsArray = TRUE,
                               !.y_columns = [i \in 1..n |-> Str(<<"b", "1">>)]] :
                g \in PlannedChartGoals, t \in PlannedChartTypes, n \in SeriesCounts}
            \cup {[NoRawPlan EXCEPT !.chart_goal = Name("composition"),
                                    !.title = Str(<<"Share">>)]}
      [] OTHER -> {NoRawPlan}

InitPlan ==
    /\ pcp = "start"
    /\ req \in Requests
    /\ intentResult = NoIntent /\ rawPlan = NoRawPlan
    /\ planCalls = 0 /\ insightCalls = 0 /\ built = <<>> /\ thrown = FALSE
    /\ response = NoResponse /\ classifyCalls = 0 /\ failure = "none"
    /\ RRest /\ XRest /\ FRest /\ IRest /\ CRest /\ URest

(* if (!prompt) return res.status(400) *)
RejectNoPrompt ==
    /\ pcp = "start" /\ ~req.prompt
    /\ response' = BadRequestResponse
    /\ pcp' = "done"
    /\ UNCHANGED <<intentResult, req, rawPlan, planCalls, insightCalls, built, thrown,
                   classifyCalls, failure, notP>>

(* STEP 3: the classification collaborator is called. *)
Classify ==
    /\ pcp = "start" /\ req.prompt
    /\ classifyCalls' = classifyCalls + 1
    /\ pcp' = "classifying"
    /\ UNCHANGED <<intentResult, req, rawPlan, planCalls, insightCalls, built, thrown,
                   response, failure, notP>>

(* The classification call rejects, or its content is not JSON: the await  *)
(* or JSON.parse throws into the outer catch.                              *)
ClassifyFails ==
    /\ pcp = "classifying"
    /\ \E cause \in {"classification failed", "classification is not JSON"} :
          failure' = cause
    /\ response' = ServerErrorResponse
    /\ pcp' = "done"
    /\ UNCHANGED <<intentResult, req, rawPlan, planCalls, insightCalls, built, thrown,
                   classifyCalls, notP>>

(* The classification came back and its confidence is below the threshold. *)
ShortCircuit ==
    /\ pcp = "classifying"
    /\ \E ir \in IntentResults :
        /\ ConfidenceBelowThreshold(ir.confidence)
        /\ intentResult' = ir
    /\ response' = ClarifyResponse
    /\ pcp' = "done"
    /\ UNCHANGED <<req, rawPlan, planCalls, insightCalls, built, thrown,
                   classifyCalls, failure, notP>>

(* intent === 'insight': one completion call, answered without a plan; the *)
(* call may reject, which throws into the outer catch.                     *)
Insight ==
    /\ pcp = "classifying"
    /\ \E ir \in IntentResults :
        /\ ~ConfidenceBelowThreshold(ir.confidence)
        /\ ir.intent = "insight"
        /\ intentResult' = ir
    /\ insightCalls' = insightCalls + 1
    /\ \/ response' = OkResponse(Str(<<"insight">>), <<>>) /\ UNCHANGED failure
       \/ response' = ServerErrorResponse /\ failure' = "insight failed"
    /\ pcp' = "done"
    /\ UNCHANGED <<req, rawPlan, planCalls, built, thrown, classifyCalls, notP>>

(* STEP 4: the planning collaborator is called. *)
RequestPlan ==
    /\ pcp = "classifying"
    /\ \E ir \in IntentResults :
        /\ ~ConfidenceBelowThreshold(ir.confidence)
        /\ ir.intent # "insight"
        /\ intentResult' = ir
    /\ planCalls' = planCalls + 1
    /\ pcp' = "planning"
    /\ UNCHANGED <<req, rawPlan, insightCalls, built, thrown, response,
                   classifyCalls, failure, notP>>

(* A handler that calls the planning collaborator again when it fails. *)
PlanFails_Retry ==
    /\ pcp = "planning"
    /\ planCalls <= 1
    /\ planCalls' = planCalls + 1
    /\ failure' = "planning failed"
    /\ UNCHANGED <<pcp, intentResult, req, rawPlan, insightCalls, built, thrown, response,
                   classifyCalls, notP>>

(* The planning call rejects, or its content is not JSON: the outer catch. *)
PlanFails ==
    /\ pcp = "planning"
    /\ \E cause \in {"planning failed", "plan is not JSON"} : failure' = cause
    /\ response' = ServerErrorResponse
    /\ pcp' = "done"
    /\ UNCHANGED <<intentResult, req, rawPlan, planCalls, insightCalls, built, thrown,
                   classifyCalls, notP>>

(* The answer to a raw plan whose steps were built, or whose building threw *)
Respond(rp, acc) ==
    /\ rawPlan' = rp
    /\ built' = acc.steps
    /\ thrown' = acc.thrown
    /\ response' = IF acc.thrown
                   THEN ValErrorResponse(acc.steps, acc.msg)
                   ELSE OkResponse(OrElse(rp.conversational_answer, Str(acc.summary)),
                                   acc.steps)

(* The raw plan came back: build the steps and answer. *)
CompilePlan ==
    /\ pcp = "planning"
    /\ \E rp \in RawPlans(intentResult.intent) :
          Respond(rp, BuildSteps(intentResult, rp, req.headers))
    /\ pcp' = "done"
    /\ UNCHANGED <<intentResult, req, planCalls, insightCalls, classifyCalls, failure, notP>>

NextPlan ==
    \/ RejectNoPrompt \/ Classify \/ ClassifyFails \/ ShortCircuit \/ Insight
    \/ RequestPlan \/ PlanFails \/ CompilePlan

SpecPlan == InitPlan /\ [][NextPlan]_vars

(* The raw plan came back and the steps were built. *)
Compiled == pcp = "done" /\ planCalls > 0 /\ failure = "none"

(* The raw plan of a formula request carries one supported pattern with    *)
(* its required parameters at the top level and no calculations list.      *)
SinglePattern ==
    /\ intentResult.intent = "formula"
    /\ rawPlan.calcsKind # "array"
    /\ rawPlan.pattern \in FormulaPatterns
    /\ rawPlan.parameters.kind = "object"
    /\ \A i \in 1..Len(PatternDef(rawPlan.pattern).required_params) :
          rawPlan.parameters.vals[PatternDef(rawPlan.pattern).required_params[i]] # Undef

(* C25: a formula raw plan with a single top-level pattern in place of the *)
(* calculations list compiles to exactly one step.                         *)
C25_SinglePatternFallback ==
    (Compiled /\ SinglePattern) => Len(response.steps) = 1 /\ Len(built) = 1

(* The plan was compiled for a classification of sufficient confidence. *)
Gated == Compiled /\ ConfidenceAtLeastThreshold(intentResult.confidence)

StepNumbers(steps) == [i \in 1..Len(steps) |-> steps[i].stepNumber]

(* C3: whenever the confidence does not satisfy confidence >= 0.6, the     *)
(* planning collaborator is not called and the response has no steps.      *)
C3_ConfidenceGate ==
    (pcp \in {"planning", "done"} /\ intentResult.intent # ""
        /\ ~ConfidenceAtLeastThreshold(intentResult.confidence))
    => (planCalls = 0 /\ response.steps = <<>>)

(* C5: the steps of a formula, clean_data or organization plan carry the   *)
(* numbers 1, 2, ..., n in order.                                          *)
C5_SequentialNumbers ==
    (Gated /\ intentResult.intent \in {"formula", "clean_data", "organization"})
    => \A i \in 1..Len(response.steps) : response.steps[i].stepNumber = i

(* C6: when building the steps throws, the response has success false, an  *)
(* explanatory answer and no steps.                                        *)
C6_AllOrNothing ==
    (Compiled /\ thrown) =>
        /\ response.success = FALSE
        /\ response.steps = <<>>
        /\ response.answer.t = "string"
        /\ response.answer.s[1] = "I couldn't complete that: "
        /\ response.answer.s[2] # ""

(* Steps had been built when the error was thrown. *)
C6_Witness == Compiled /\ thrown /\ built # <<>>

(* The pattern of a calculation is, or is not, an entry of the registry.   *)
PatternDefined(calc) == calc.pattern \in FormulaPatterns
PatternUndefined(calc) == ~PatternDefined(calc)
HasParam(calc, p) == calc.parameters.kind = "object" /\ calc.parameters.vals[p] # Undef
CalcComplete(calc) ==
    /\ PatternDefined(calc)
    /\ \A i \in 1..Len(PatternDef(calc.pattern).required_params) :
            HasParam(calc, PatternDef(calc.pattern).required_params[i])
CalcLacksParam(calc) == PatternDefined(calc) /\ ~CalcComplete(calc)

OpSupported(op) == op.operation \in CleanOperations
OpUnsupported(op) == ~OpSupported(op)
OpWellFormed(op) ==
    OpSupported(op) /\ ParamsOf(op).operator.t \in {"string", "undefined"}

(* The members of S between i and n, in ascending order. *)
RECURSIVE Ascending(_, _, _)
Ascending(i, n, S) ==
    IF i > n THEN <<>>
    ELSE (IF i \in S THEN <<i>> ELSE <<>>) \o Ascending(i + 1, n, S)

CompleteCalcs == {i \in 1..Len(rawPlan.calculations) : CalcComplete(rawPlan.calculations[i])}
SupportedOps == {i \in 1..Len(rawPlan.operations) : OpSupported(rawPlan.operations[i])}

(* C7: in a plan whose other items are well-formed, an item the registry   *)
(* does not define emits no step, the other items emit theirs, and the     *)
(* response has success true.                                              *)
C7_UnsupportedSkipped ==
    /\ (Gated /\ intentResult.intent = "formula" /\ rawPlan.calcsKind = "array"
          /\ (\E i \in 1..Len(rawPlan.calculations) : PatternUndefined(rawPlan.calculations[i]))
          /\ (\A i \in 1..Len(rawPlan.calculations) :
                 PatternUndefined(rawPlan.calculations[i]) \/ CalcComplete(rawPlan.calculations[i])))
       => (response.success
            /\ StepNumbers(response.steps) = Ascending(1, Len(rawPlan.calculations), CompleteCalcs))
    /\ (Gated /\ intentResult.intent = "clean_data" /\ rawPlan.opsIsArray
          /\ (\E i \in 1..Len(rawPlan.operations) : OpUnsupported(rawPlan.operations[i]))
          /\ (\A i \in 1..Len(rawPlan.operations) :
                 OpUnsupported(rawPlan.operations[i]) \/ OpWellFormed(rawPlan.operations[i])))
       => (response.success
            /\ StepNumbers(response.steps) = Ascending(1, Len(rawPlan.operations), SupportedOps))

(* C8: a calculation of a defined pattern that lacks a required parameter  *)
(* emits no step, the complete calculations emit theirs, and the response  *)
(* has success true.                                                       *)
C8_MissingParamSkipped ==
    (Gated /\ intentResult.intent = "formula" /\ rawPlan.calcsKind = "array"
       /\ (\E i \in 1..Len(rawPlan.calculations) : CalcLacksParam(rawPlan.calculations[i]))
       /\ (\A i \in 1..Len(rawPlan.calculations) : PatternDefined(rawPlan.calculations[i])))
    => (response.success
         /\ StepNumbers(response.steps) = Ascending(1, Len(rawPlan.calculations), CompleteCalcs))

(* The type the precedence names: the classification's explicit type, else *)
(* the raw plan's, else the default of the stated goal, else column.       *)
PrecedenceType ==
    CASE ~Falsy(intentResult.explicit_chart_type) -> intentResult.explicit_chart_type.s[1]
      [] ~Falsy(rawPlan.explicit_chart_type)      -> rawPlan.explicit_chart_type.s[1]
      [] rawPlan.chart_goal.t = "string" /\ rawPlan.chart_goal.s[1] \in ChartGoals
                                                  -> ChartGoalDefault(rawPlan.chart_goal.s[1])
      [] OTHER                                    -> "column"

SeriesCount == IF rawPlan.yIsArray THEN Len(rawPlan.y_columns) ELSE 0

(* The type after the supported-set and pie rules. *)
RuledType(type) ==
    LET valid == IF type \in ChartSupportedTypes THEN type ELSE "column"
    IN IF valid = "pie" /\ SeriesCount > PieMaxSlices THEN "bar" ELSE valid

OneChartStep ==
    /\ response.success
    /\ Len(response.steps) = 1
    /\ response.steps[1].stepNumber = 1
    /\ response.steps[1].action = "CREATE_CHART"

(* C13 as stated: one CREATE_CHART step whose type is the type the         *)
(* precedence names, replaced by column when it is not a supported type    *)
(* and by bar when it is pie with more series than the cap.                *)
C13_ChartTypePrecedence ==
    (Gated /\ intentResult.intent = "chart") =>
        /\ OneChartStep
        /\ response.steps[1].params.chartType = RuledType(PrecedenceType)

(* C13 amended: the type the precedence names is lower-cased before the    *)
(* supported-set and pie rules are applied.                                *)
C13_ChartTypeFolded ==
    (Compiled /\ intentResult.intent = "chart") =>
        /\ OneChartStep
        /\ response.steps[1].params.chartType = RuledType(LowerName(PrecedenceType))

(* Both the classification and the raw plan named a type, they differ, and *)
(* the pie rule applied.                                                   *)
C13_Witness ==
    /\ Compiled /\ intentResult.intent = "chart"
    /\ ~Falsy(intentResult.explicit_chart_type) /\ ~Falsy(rawPlan.explicit_chart_type)
    /\ LowerName(intentResult.explicit_chart_type.s[1]) = "pie"
    /\ rawPlan.explicit_chart_type.s[1] = "line"
    /\ SeriesCount > PieMaxSlices
    /\ response.steps[1].params.chartType = "bar"

(* C14: for intent insight with sufficient confidence the planning         *)
(* collaborator is called, and every complete aggregate calculation of the *)
(* raw plan yields a QUERY_VALUE step.                                     *)
C14_InsightCompiled ==
    (pcp = "done" /\ failure = "none" /\ intentResult.intent = "insight"
        /\ ConfidenceAtLeastThreshold(intentResult.confidence))
    => /\ planCalls = 1
       /\ \A i \in CompleteCalcs :
             PatternDef(rawPlan.calculations[i].pattern).type = "aggregate"
                => \E k \in 1..Len(response.steps) :
                      response.steps[k].action = "QUERY_VALUE"

(* The action tags executeAction dispatches on. *)
ActionTags ==
    {"CONVERT_DATATYPE", "ADD_FORMULA", "CREATE_CHART", "SORT_DATA", "FILTER_DATA",
     "ADD_COLUMN", "DELETE_COLUMN", "DELETE_ROWS", "FORMAT_CELLS", "CLEAN_DATA",
     "AGGREGATE", "YOY_CALCULATION", "QUERY_VALUE"}

(* C15: every step of a compiled plan carries one of the thirteen action  *)
(* tags the executor knows.                                                *)
C15_WireLevelTags ==
    Gated => \A k \in 1..Len(response.steps) : response.steps[k].action \in ActionTags

(* C20: a failing collaborator ends the request with a success:false       *)
(* response without steps; no collaborator is called twice; the planning   *)
(* collaborator is called only after the classification has returned.      *)
C20_UpstreamFailureOnce ==
    /\ classifyCalls <= 1 /\ planCalls <= 1
    /\ planCalls > 0 => (classifyCalls = 1 /\ intentResult # NoIntent)
    /\ failure # "none" =>
          /\ pcp = "done"
          /\ response.success = FALSE
          /\ response.status = 500
          /\ response.steps = <<>>

(* The planning collaborator answered with text that is not JSON. *)
C20_Witness ==
    failure = "plan is not JSON" /\ pcp = "done" /\ planCalls = 1 /\ classifyCalls = 1

----------------------------------------------------------------------------
(* executePlan on a sheet.  A sheet has an optional title row, the header  *)
(* row and up to MaxRows data rows (a numeric id and a value).             *)

TitleRow == <<Str(<<"T">>), EmptyCell>>
HeaderRow == <<Str(<<"i", "d">>), Str(<<"s", "t">>)>>
CellValues == {Str(<<"p">>), Str(<<"P">>), Str(<<"P", " ">>), EmptyCell, Num(7)}

Sheets ==
    {top \o <<HeaderRow>> \o [i \in 1..Len(vs) |-> <<Num(i), vs[i]>>] :
        top \in {<<>>, <<TitleRow>>}, vs \in SeqsUpTo(CellValues, MaxRows)}

StepParams(operator, value, condition) ==
    [column |-> Str(<<"B">>), operator |-> operator, value |-> value, condition |-> condition,
     toType |-> Undef, operation |-> Undef, fillValue |-> Undef]

FilterStep(operator, value) ==
    [action |-> "FILTER_DATA", params |-> StepParams(operator, value, Undef)]
DeleteStep(condition, value) ==
    [action |-> "DELETE_ROWS", params |-> StepParams(Undef, value, condition)]
UnknownStep == [action |-> "EXPORT_PDF", params |-> StepParams(Undef, Undef, Undef)]
ConvertStep(toType) ==
    [action |-> "CONVERT_DATATYPE",
     params |-> [StepParams(Undef, Undef, Undef) EXCEPT !.toType = toType]]
CleanStep(operation) ==
    [action |-> "CLEAN_DATA",
     params |-> [StepParams(Undef, Undef, Undef) EXCEPT !.operation = operation]]
DeleteColumnStep == [action |-> "DELETE_COLUMN", params |-> StepParams(Undef, Undef, Undef)]

(* The same step as the plan carries it when no column was given. *)
NoColumn(step) == [step EXCEPT !.params.column = Undef]

StepKinds ==
    {FilterStep(Name("equals"), Str(<<"p">>)),
     FilterStep(Name("not_equals"), Str(<<"p">>)),
     FilterStep(Name("contains"), Str(<<"P">>)),
     FilterStep(Name("not_contains"), Str(<<"P">>)),
     FilterStep(Name("greater"), Num(5)),
     FilterStep(Name("less"), Str(<<"9">>)),
     FilterStep(Name("empty"), Null),
     FilterStep(Name("not_empty"), Null),
     FilterStep(Name("between"), Num(5)),
     DeleteStep(Name("equals"), Str(<<"P">>)),
     DeleteStep(Name("duplicate"), Null),
     DeleteStep(Name("empty"), Null),
     ConvertStep(Name("number")),
     ConvertStep(Name("string")),
     CleanStep(Name("trim_whitespace")),
     CleanStep(Name("uppercase")),
     CleanStep(Name("convert_to_number")),
     DeleteColumnStep,
     NoColumn(FilterStep(Name("equals"), Str(<<"p">>))),
     NoColumn(DeleteStep(Name("empty"), Null)),
     NoColumn(DeleteColumnStep),
     UnknownStep}

MakePlan(ks) ==
    [i \in 1..Len(ks) |->
        [stepNumber |-> i, action |-> ks[i].action,
         description |-> Str(<<"Performing ", ks[i].action>>), params |-> ks[i].params,
         keys |-> <<>>]]

(* SpecDelete: every sheet of the bounds under a plan of one step. *)
InitDelete ==
    /\ sheet \in Sheets
    /\ plan \in {MakePlan(<<k>>) : k \in StepKinds}
    /\ pcx = 1
    /\ stepResults = <<>>
    /\ successCount = 0
    /\ lastOp = NoOp
    /\ execResult = NoResult
    /\ RRest /\ PRest /\ FRest /\ IRest /\ CRest /\ URest

(* SpecExec: plans of up to MaxSteps steps on a few sheets. *)
LoopSheets ==
    {<<HeaderRow>>,
     <<HeaderRow, <<Num(1), Str(<<"p">>)>>, <<Num(2), Str(<<"p">>)>>>>,
     <<TitleRow, HeaderRow, <<Num(1), Str(<<"P", " ">>)>>, <<Num(2), Num(7)>>,
       <<Num(3), Str(<<"p">>)>>>>}

LoopKinds ==
    {FilterStep(Name("equals"), Str(<<"p">>)),
     FilterStep(Name("greater"), Num(5)),
     DeleteStep(Name("duplicate"), Null),
     UnknownStep}

InitExec ==
    /\ sheet \in LoopSheets
    /\ plan \in {MakePlan(ks) : ks \in SeqsUpTo(LoopKinds, MaxSteps)}
    /\ pcx = 1
    /\ stepResults = <<>>
    /\ successCount = 0
    /\ lastOp = NoOp
    /\ execResult = NoResult
    /\ RRest /\ PRest /\ FRest /\ IRest /\ CRest /\ URest

SuccessEntry(step, result) ==
    [step |-> step.stepNumber, action |-> step.action, description |-> step.description,
     status |-> "success", result |-> result]
ErrorEntry(step, error) ==
    [step |-> step.stepNumber, action |-> step.action, description |-> step.description,
     status |-> "error", error |-> error]

(* The try and catch of the loop body: the handler's outcome is pushed as  *)
(* the step's entry, counted when it returned, and the sheet is as the     *)
(* handler left it.                                                        *)
Push(step, out) ==
    /\ sheet' = out.sheet
    /\ stepResults' = Append(stepResults,
                             IF out.threw THEN ErrorEntry(step, out.result)
                             ELSE SuccessEntry(step, out.result))
    /\ successCount' = IF out.threw THEN successCount ELSE successCount + 1
    /\ lastOp' = [action |-> ResolveStep(step).action, threw |-> out.threw,
                  selected |-> out.selected, deleted |-> out.deleted,
                  before |-> sheet, startRow |-> out.startRow]

(* A loop whose first failing step ends the plan. *)
ExecStep_AbortOnThrow ==
    /\ pcx \in 1..Len(plan)
    /\ execResult = NoResult
    /\ Push(plan[pcx], executeAction(sheet, plan[pcx]))
    /\ pcx' = IF stepResults'[Len(stepResults')].status = "error" THEN Len(plan) + 1 ELSE pcx + 1
    /\ UNCHANGED <<plan, execResult, notX>>

(* One pass of the for loop of executePlan: the step is executed and its   *)
(* entry pushed, with status error when the handler threw.                 *)
ExecStep ==
    /\ pcx \in 1..Len(plan)
    /\ execResult = NoResult
    /\ Push(plan[pcx], executeAction(sheet, plan[pcx]))
    /\ pcx' = pcx + 1
    /\ UNCHANGED <<plan, execResult, notX>>

(* executePlan returns: at once for an empty plan, else after the loop. *)
ReturnResult ==
    /\ pcx = Len(plan) + 1
    /\ execResult = NoResult
    /\ execResult' = [returned |-> TRUE, empty |-> Len(plan) = 0,
                      successCount |-> successCount, total |-> Len(plan),
                      stepResults |-> stepResults]
    /\ UNCHANGED <<sheet, plan, pcx, stepResults, successCount, lastOp, notX>>

NextExec == ExecStep \/ ReturnResult

SpecExec == InitExec /\ [][NextExec]_vars

SpecDelete == InitDelete /\ [][NextExec]_vars

StrictlyDescending(rows) == \A i \in 1..(Len(rows) - 1) : rows[i] > rows[i + 1]

Elements(rows) == {rows[i] : i \in 1..Len(rows)}

(* The rows of sh whose row number is not in S, in their order. *)
RECURSIVE Without(_, _, _)
Without(sh, S, r) ==
    IF r > Len(sh) THEN <<>>
    ELSE (IF r \in S THEN <<>> ELSE <<sh[r]>>) \o Without(sh, S, r + 1)

(* The last step ran filterData or deleteRows (to its return or to a throw). *)
DeleteHandlerRan == lastOp.action \in {"FILTER_DATA", "DELETE_ROWS"}

(* C1: a filterData or deleteRows call deletes the selected rows one at a  *)
(* time in strictly descending row order and leaves exactly the rows that  *)
(* were not selected, in their order, the header row and the rows above it *)
(* untouched.                                                              *)
C1_DescendingDelete ==
    DeleteHandlerRan =>
        /\ StrictlyDescending(lastOp.deleted)
        /\ Elements(lastOp.deleted) = Elements(lastOp.selected)
        /\ Len(lastOp.deleted) = Len(lastOp.selected)
        /\ \A r \in Elements(lastOp.selected) : r >= lastOp.startRow /\ r <= Len(lastOp.before)
        /\ sheet = Without(lastOp.before, Elements(lastOp.selected), 1)
        /\ SubSeq(sheet, 1, lastOp.startRow - 1) = SubSeq(lastOp.before, 1, lastOp.startRow - 1)

(* Two rows with a kept row between or below them have been deleted. *)
C1_Witness ==
    /\ lastOp.action = "FILTER_DATA" /\ ~lastOp.threw
    /\ Len(lastOp.deleted) >= 2
    /\ Len(sheet) >= lastOp.startRow
    /\ \E r \in Elements(lastOp.selected) : r < Len(lastOp.before)

(* C2: one entry per executed step, in plan order, carrying the step's     *)
(* number, action and description; a step that throws gets status error    *)
(* and the loop goes on; the reported count is the number of successes.    *)
C2_StepIsolation ==
    /\ Len(stepResults) = pcx - 1
    /\ \A i \in 1..Len(stepResults) :
          /\ stepResults[i].step = plan[i].stepNumber
          /\ stepResults[i].action = plan[i].action
          /\ stepResults[i].description = plan[i].description
          /\ stepResults[i].status \in {"success", "error"}
          /\ (ResolveStep(plan[i]).action \notin HandledActions
                 => stepResults[i].status = "error")
          /\ (stepResults[i].status = "error" => stepResults[i].error.text # "")
    /\ successCount = Cardinality({i \in 1..Len(stepResults) : stepResults[i].status = "success"})
    /\ execResult.returned =>
          /\ execResult.stepResults = stepResults
          /\ Len(execResult.stepResults) = Len(plan)
          /\ execResult.successCount =
                Cardinality({i \in 1..Len(stepResults) : stepResults[i].status = "success"})

(* A step failed and the step after it was executed and succeeded. *)
C2_Witness ==
    /\ execResult.returned
    /\ \E i \in 1..(Len(stepResults) - 1) :
          stepResults[i].status = "error" /\ stepResults[i + 1].status = "success"

(* The data rows of the sheet before the last filterData call whose cell   *)
(* in the target column matches the step's operator and value.             *)
MatchingRows ==
    LET params == plan[pcx - 1].params
        col == columnLetterToIndex(params.column)
    IN {r \in lastOp.startRow..Len(lastOp.before) :
            isMatch(params.operator, params.value, CellAt(lastOp.before, r, col))}

(* C4: filterData deletes exactly the data rows that match the condition   *)
(* and keeps every row that does not.                                      *)
C4_FilterDeletesMatching ==
    (lastOp.action = "FILTER_DATA" /\ ~lastOp.threw) =>
        sheet = Without(lastOp.before, MatchingRows, 1)

(* The step the executor ran last. *)
LastStep == plan[pcx - 1]

(* The handlers that compute a row range for one column. *)
RowRangeHandlers == {"CONVERT_DATATYPE", "FILTER_DATA", "DELETE_ROWS", "CLEAN_DATA"}

(* C16: every handler that works on the rows of a column starts at the row *)
(* after the detected header row, and leaves the header row and the rows   *)
(* above it as they were, also when the header is not in row 1.            *)
C16_HeaderRowUnderlies ==
    (lastOp.action \in RowRangeHandlers /\ ~lastOp.threw) =>
        LET headerRow == detectHeaderRow(getDataValues(lastOp.before)) + 1
        IN /\ lastOp.startRow = headerRow + 1
           /\ SubSeq(sheet, 1, headerRow) = SubSeq(lastOp.before, 1, headerRow)

(* The case-folded value of row r of the sheet as it was, in the column of *)
(* the last step.                                                          *)
FoldedAt(r) ==
    toLowerCase(JsString(CellAt(lastOp.before, r, columnLetterToIndex(LastStep.params.column))))

DataRows == lastOp.startRow..Len(lastOp.before)

(* The data rows with an earlier data row of the same case-folded value. *)
LaterOccurrences == {r \in DataRows : \E q \in DataRows : q < r /\ FoldedAt(q) = FoldedAt(r)}

DuplicateDeleteRan ==
    /\ lastOp.action = "DELETE_ROWS" /\ ~lastOp.threw
    /\ LastStep.params.condition = Name("duplicate")

(* C17: deleteRows with condition duplicate deletes exactly the data rows  *)
(* that have an earlier data row with the same case-folded value; of each  *)
(* value one row remains, the topmost, and the rows left keep their order. *)
C17_DuplicatesKeepFirst ==
    DuplicateDeleteRan =>
        /\ Elements(lastOp.selected) = LaterOccurrences
        /\ sheet = Without(lastOp.before, LaterOccurrences, 1)
        /\ \A r \in DataRows :
              LET first == CHOOSE q \in DataRows :
                               /\ FoldedAt(q) = FoldedAt(r)
                               /\ \A u \in DataRows : FoldedAt(u) = FoldedAt(r) => q <= u
                  left == {k \in lastOp.startRow..Len(sheet) :
                              toLowerCase(JsString(CellAt(sheet, k,
                                  columnLetterToIndex(LastStep.params.column)))) = FoldedAt(r)}
              IN /\ Cardinality(left) = 1
                 /\ \A k \in left : sheet[k] = lastOp.before[first]

(* A row that differs from an earlier one only in case has been deleted,   *)
(* and a row below it stays.                                               *)
C17_Witness ==
    /\ DuplicateDeleteRan
    /\ \E r \in Elements(lastOp.selected) :
          /\ \E q \in DataRows :
                /\ q < r /\ FoldedAt(q) = FoldedAt(r)
                /\ lastOp.before[q][2] # lastOp.before[r][2]
          /\ \E u \in DataRows : u > r /\ u \notin Elements(lastOp.selected)

(* The handlers that take the column to work on from params.column. *)
ColumnHandlers ==
    {"CONVERT_DATATYPE", "FILTER_DATA", "DELETE_ROWS", "CLEAN_DATA", "DELETE_COLUMN"}

(* C19: a step of a column handler that carries no column gets status      *)
(* error and the sheet stays as it was.                                    *)
C19_MissingColumnIsError ==
    (lastOp.action \in ColumnHandlers /\ LastStep.params.column = Undef) =>
        /\ stepResults[pcx - 1].status = "error"
        /\ sheet = lastOp.before

(* SpecImpact: the impact analysis of filterData and deleteRows on the     *)
(* counts it works from, the rows marked for deletion (at least one, or    *)
(* the handler has returned before) and the data rows.                     *)
ImpactRows == 40
LargeRows == 1001

ImpactTotals == 1..ImpactRows \cup {LargeRows}

ImpactInputs == {[deleted |-> d, total |-> t] : d \in 1..LargeRows, t \in ImpactTotals}

InitImpact ==
    /\ impactIn \in {x \in ImpactInputs : x.deleted <= x.total}
    /\ impactOut = NoImpact
    /\ RRest /\ PRest /\ XRest /\ FRest /\ CRest /\ URest

(* impactPercent and the test impactPercent > 50 that adds the warning *)
ImpactCall ==
    /\ ~impactOut.done
    /\ impactOut' = [done |-> TRUE,
                     tenths |-> ImpactTenths(impactIn.deleted, impactIn.total),
                     warn |-> HighImpact(impactIn.deleted, impactIn.total)]
    /\ UNCHANGED <<impactIn, notI>>

NextImpact == ImpactCall

SpecImpact == InitImpact /\ [][NextImpact]_vars

(* C18: when more than half of the data rows are removed the message       *)
(* carries the high-impact warning; 9 of 10 rows is an impact of 90.0      *)
(* percent and is annotated.                                               *)
C18_ImpactWarning ==
    impactOut.done =>
        /\ (2 * impactIn.deleted > impactIn.total => impactOut.warn)
        /\ (impactIn.deleted = 9 /\ impactIn.total = 10 =>
               impactOut.tenths = 900 /\ impactOut.warn)

----------------------------------------------------------------------------
(* Criteria of a calculation: backend/server.js 182-214 and the criteria   *)
(* builders of builders.js.  A criteria parameter is absent, a flat object *)
(* (its own keys in the order the JSON text gives them, each with a value) *)
(* or an array of clauses.                                                 *)

NoCriteria == [kind |-> "undefined", entries |-> <<>>, items |-> <<>>]
FlatCriteria(entries) == [kind |-> "object", entries |-> entries, items |-> <<>>]
ListCriteria(items) == [kind |-> "array", entries |-> <<>>, items |-> items]
Clause(column, operator, value) ==
    [column |-> column, criteria_column |-> Undef, operator |-> operator, value |-> value]

(* A key that is a canonical array index: Object.entries lists such keys   *)
(* first, in ascending numeric order, before the string keys.              *)
IsArrayIndexKey(k) ==
    /\ k # <<>>
    /\ \A i \in 1..Len(k) : IsDigit(k[i])
    /\ (Len(k) = 1 \/ k[1] # "0")

(* The entries of es whose key passes the test given by index, in order. *)
RECURSIVE SelectEntries(_, _)
SelectEntries(es, index) ==
    IF es = <<>> THEN <<>>
    ELSE (IF IsArrayIndexKey(Head(es).key) = index THEN <<Head(es)>> ELSE <<>>)
            \o SelectEntries(Tail(es), index)

RECURSIVE SortByIndex(_)
SortByIndex(es) ==
    IF es = <<>> THEN <<>>
    ELSE LET m == CHOOSE i \in 1..Len(es) :
                    \A j \in 1..Len(es) : DigitsValue(es[i].key, 0) <= DigitsValue(es[j].key, 0)
         IN <<es[m]>> \o SortByIndex(SubSeq(es, 1, m - 1) \o SubSeq(es, m + 1, Len(es)))

(* Object.entries(obj) *)
ObjectEntries(es) == SortByIndex(SelectEntries(es, TRUE)) \o SelectEntries(es, FALSE)

(* server.js 188-199: a criteria object that is not an array becomes an    *)
(* array of equals clauses.                                                *)
NormalizeCriteria(criteria) ==
    IF criteria.kind = "object"
    THEN LET es == ObjectEntries(criteria.entries)
         IN ListCriteria([i \in 1..Len(es) |->
                            Clause(Str(es[i].key), Name("equals"), es[i].val)])
    ELSE criteria

(* server.js 206-211: the column of every clause goes through resolveColumn *)
ResolveCriteria(criteria, headers) ==
    IF criteria.kind = "array"
    THEN ListCriteria([i \in 1..Len(criteria.items) |->
            [criteria.items[i] EXCEPT
                !.column = resolveColumn(IF Falsy(criteria.items[i].column)
                                         THEN criteria.items[i].criteria_column
                                         ELSE criteria.items[i].column, headers)]])
    ELSE criteria

(* mapOperator(op): the sheet operator of a named operator, the operator   *)
(* itself when the table has no entry; toLowerCase throws on a truthy      *)
(* value that is not a string.                                             *)
OperatorTable(key) ==
    CASE key \in {"equals"}                      -> <<"=">>
      [] key \in {"not_equals", "not_equal_to"}  -> <<"<", ">">>
      [] key \in {"greater", "greater_than"}     -> <<">">>
      [] key \in {"less", "less_than"}           -> <<"<">>
      [] OTHER                                   -> <<>>

mapOperator(op) ==
    IF Falsy(op) THEN [threw |-> FALSE, text |-> <<"=">>]
    ELSE IF op.t # "string" THEN [threw |-> TRUE, text |-> <<>>]
    ELSE LET hit == OperatorTable(LowerName(op.s[1]))
         IN [threw |-> FALSE, text |-> IF hit # <<>> THEN hit ELSE op.s]

Quote == "\""

(* A builder that quotes every criterion. *)
FormatCriterion_AlwaysQuoted(sheetOp, value) ==
    IF sheetOp = <<"=">>
    THEN <<Quote>> \o JsString(value) \o <<Quote>>
    ELSE <<Quote>> \o sheetOp \o JsString(value) \o <<Quote>>

(* criterion = (sheetOp === '=') ? value : `${sheetOp}${value}`, quoted    *)
(* when typeof criterion is 'string'.                                      *)
FormatCriterion(sheetOp, value) ==
    IF sheetOp = <<"=">>
    THEN IF value.t = "string" THEN <<Quote>> \o value.s \o <<Quote>> ELSE JsString(value)
    ELSE <<Quote>> \o sheetOp \o JsString(value) \o <<Quote>>

BuildThrew == [threw |-> TRUE, text |-> <<>>]
Built(text) == [threw |-> FALSE, text |-> text]

(* `${column}:${column}, ${formattedCriterion}` for one clause *)
ClauseText(column, operator, value) ==
    LET sheetOp == mapOperator(operator)
        col == JsString(column)
    IN IF sheetOp.threw THEN BuildThrew
       ELSE Built(col \o <<":">> \o col \o <<",", " ">> \o FormatCriterion(sheetOp.text, value))

(* criteria.forEach of buildCountIfs (sep = FALSE) and buildSumIfs (sep =   *)
(* TRUE puts ", " before every clause, else only between clauses).         *)
RECURSIVE ClausesText(_, _, _)
ClausesText(items, idx, always) ==
    IF idx > Len(items) THEN Built(<<>>)
    ELSE LET c == ClauseText(items[idx].column, items[idx].operator, items[idx].value)
             rest == ClausesText(items, idx + 1, always)
         IN IF c.threw \/ rest.threw THEN BuildThrew
            ELSE Built((IF always \/ idx > 1 THEN <<",", " ">> ELSE <<>>) \o c.text \o rest.text)

buildCountIf(params) ==
    LET c == ClauseText(params.criteria_column, params.operator, params.value)
    IN IF c.threw THEN BuildThrew
       ELSE Built(<<"=", "C", "O", "U", "N", "T", "I", "F", "(">> \o c.text \o <<")">>)

buildCountIfs(params) ==
    IF params.criteria.kind # "array" THEN BuildThrew
    ELSE LET cs == ClausesText(params.criteria.items, 1, FALSE)
         IN IF cs.threw THEN BuildThrew
            ELSE Built(<<"=", "C", "O", "U", "N", "T", "I", "F", "S", "(">> \o cs.text \o <<")">>)

buildSumIf(params) ==
    LET c == ClauseText(params.criteria_column, params.operator, params.value)
        sum == JsString(params.sum_column)
    IN IF c.threw THEN BuildThrew
       ELSE Built(<<"=", "S", "U", "M", "I", "F", "(">> \o c.text \o <<",", " ">>
                    \o sum \o <<":">> \o sum \o <<")">>)

buildSumIfs(params) ==
    LET sum == JsString(params.sum_column)
    IN IF params.criteria.kind # "array" THEN BuildThrew
       ELSE LET cs == ClausesText(params.criteria.items, 1, TRUE)
            IN IF cs.threw THEN BuildThrew
               ELSE Built(<<"=", "S", "U", "M", "I", "F", "S", "(">> \o sum \o <<":">> \o sum
                            \o cs.text \o <<")">>)

(* builders[builderName](resolvedParams) *)
CriteriaBuilders == {"buildCountIf", "buildCountIfs", "buildSumIf", "buildSumIfs"}
BuildCriteriaFormula(builderName, params) ==
    CASE builderName = "buildCountIf"  -> buildCountIf(params)
      [] builderName = "buildCountIfs" -> buildCountIfs(params)
      [] builderName = "buildSumIf"    -> buildSumIf(params)
      [] OTHER                         -> buildSumIfs(params)

----------------------------------------------------------------------------
(* SpecBuild: the parameters of one criteria calculation are normalised,   *)
(* resolved against the headers and handed to the builder.                 *)

CritKeys == {<<"A">>, <<"B">>, <<"b", "1">>, <<"2">>, <<"1", "0">>}
CritValues == {Str(<<"X">>), Num(10)}
CritTests ==
    {[operator |-> Name("equals"), value |-> Str(<<"X">>)],
     [operator |-> Name("greater"), value |-> Num(10)],
     [operator |-> Name("Greater_Than"), value |-> Str(<<"X">>)],
     [operator |-> Undef, value |-> Num(10)],
     [operator |-> Name(">="), value |-> Num(10)],
     [operator |-> Num(1), value |-> Str(<<"X">>)]}
CritColumns == {Str(<<"A">>), Str(<<"B">>), Str(<<"b", "1">>)}

Clauses == {Clause(c, t.operator, t.value) : c \in CritColumns, t \in CritTests}

DistinctKeys(ks) == \A i, j \in 1..Len(ks) : i # j => ks[i] # ks[j]

FlatMaps ==
    {FlatCriteria([i \in 1..Len(ks) |-> [key |-> ks[i], val |-> vs[i]]]) :
        <<ks, vs>> \in {p \in SeqsUpTo(CritKeys, MaxItems) \X SeqsUpTo(CritValues, MaxItems) :
                            Len(p[1]) = Len(p[2]) /\ DistinctKeys(p[1])}}

ClauseLists == {ListCriteria(cs) : cs \in SeqsUpTo(Clauses, MaxItems)}

BuildParams(builder, criteria, c) ==
    [builder |-> builder, criteria |-> criteria, criteria_column |-> c.column,
     operator |-> c.operator, value |-> c.value, sum_column |-> Str(<<"C">>)]

BuildInputs ==
    {BuildParams(b, NoCriteria, c) : b \in {"buildCountIf", "buildSumIf"}, c \in Clauses}
    \cup {BuildParams(b, cr, Clause(Undef, Undef, Undef)) :
            b \in {"buildCountIfs", "buildSumIfs"},
            cr \in {NoCriteria} \cup FlatMaps \cup ClauseLists}

NotBuilt == [done |-> FALSE, normalized |-> NoCriteria, resolved |-> NoCriteria,
             threw |-> FALSE, formula |-> <<>>]

InitBuild ==
    /\ fbIn \in BuildInputs
    /\ fbHeaders \in ReqHeaders
    /\ fbOut = NotBuilt
    /\ RRest /\ PRest /\ XRest /\ IRest /\ CRest /\ URest

(* server.js 185-213 for one calculation *)
BuildCall ==
    /\ ~fbOut.done
    /\ LET normalized == NormalizeCriteria(fbIn.criteria)
           resolved == ResolveCriteria(normalized, fbHeaders)
           resolvedParams ==
               [fbIn EXCEPT !.criteria = resolved,
                            !.criteria_column = IF Falsy(@) THEN @ ELSE resolveColumn(@, fbHeaders),
                            !.sum_column = IF Falsy(@) THEN @ ELSE resolveColumn(@, fbHeaders)]
           out == BuildCriteriaFormula(fbIn.builder, resolvedParams)
       IN fbOut' = [done |-> TRUE, normalized |-> normalized, resolved |-> resolved,
                    threw |-> out.threw, formula |-> out.text]
    /\ UNCHANGED <<fbIn, fbHeaders, notF>>

NextBuild == BuildCall

SpecBuild == InitBuild /\ [][NextBuild]_vars

(* C11: a flat criteria mapping is normalised into one equals clause per   *)
(* key, in the order the keys were inserted; a criteria list is kept as it *)
(* is.                                                                     *)
C11_FlatCriteriaNormalised ==
    fbOut.done =>
        /\ fbIn.criteria.kind = "object" =>
              fbOut.normalized =
                  ListCriteria([i \in 1..Len(fbIn.criteria.entries) |->
                                  Clause(Str(fbIn.criteria.entries[i].key), Name("equals"),
                                         fbIn.criteria.entries[i].val)])
        /\ fbIn.criteria.kind = "array" => fbOut.normalized = fbIn.criteria

(* The clauses the builder was given: the criteria list of the plural      *)
(* builders, the one criterion of the singular ones.                       *)
GivenClauses ==
    IF fbIn.builder \in {"buildCountIfs", "buildSumIfs"}
    THEN fbOut.resolved.items
    ELSE <<Clause(fbIn.criteria_column, fbIn.operator, fbIn.value)>>

QuoteCount(text) == Cardinality({i \in 1..Len(text) : text[i] = Quote})

StringValued == {i \in 1..Len(GivenClauses) : GivenClauses[i].value.t = "string"}
Compared ==
    {i \in 1..Len(GivenClauses) : mapOperator(GivenClauses[i].operator).text # <<"=">>}

ExampleCriteria ==
    ListCriteria(<<Clause(Str(<<"A">>), Name("equals"), Str(<<"X">>)),
                   Clause(Str(<<"B">>), Name("greater"), Num(10))>>)
IsExample == fbIn.builder = "buildCountIfs" /\ fbIn.criteria = ExampleCriteria

(* C12 as stated: exactly the criteria with a string value are quoted, and *)
(* the example gives =COUNTIFS(A:A, "X", B:B, >10).                        *)
C12_QuotedByValueType ==
    (fbOut.done /\ ~fbOut.threw) =>
        /\ QuoteCount(fbOut.formula) = 2 * Cardinality(StringValued)
        /\ IsExample =>
              fbOut.formula = <<"=", "C", "O", "U", "N", "T", "I", "F", "S", "(",
                                "A", ":", "A", ",", " ", Quote, "X", Quote, ",", " ",
                                "B", ":", "B", ",", " ", ">", "1", "0", ")">>

(* C12 amended: a criterion is quoted exactly when its value is a string   *)
(* or its operator is not equality (the operator and the value then form   *)
(* one quoted text); the example gives =COUNTIFS(A:A, "X", B:B, ">10").    *)
C12_QuotedByCriterionType ==
    (fbOut.done /\ ~fbOut.threw) =>
        /\ QuoteCount(fbOut.formula) = 2 * Cardinality(StringValued \cup Compared)
        /\ IsExample =>
              fbOut.formula = <<"=", "C", "O", "U", "N", "T", "I", "F", "S", "(",
                                "A", ":", "A", ",", " ", Quote, "X", Quote, ",", " ",
                                "B", ":", "B", ",", " ", Quote, ">", "1", "0", Quote, ")">>

(* The formula of the example has been built. *)
C12_Witness == fbOut.done /\ ~fbOut.threw /\ IsExample

----------------------------------------------------------------------------
(* SpecTrim: the executor runs the same CLEAN_DATA trim step twice on a    *)
(* sheet whose column B holds padded, blank and numeric cells.             *)

PaddedValues ==
    {Str(<<"p">>), Str(<<" ", "P", " ">>), Str(<<"P", " ", " ">>), Str(<<" ">>),
     EmptyCell, Num(7)}

PaddedSheets ==
    {top \o <<HeaderRow>> \o [i \in 1..Len(vs) |-> <<Num(i), vs[i]>>] :
        top \in {<<>>, <<TitleRow>>}, vs \in SeqsUpTo(PaddedValues, MaxRows)}

TrimKinds == {CleanStep(Name("trim")), CleanStep(Name("trim_whitespace"))}

InitTrim ==
    /\ sheet \in PaddedSheets
    /\ plan \in {MakePlan(<<k, k>>) : k \in TrimKinds}
    /\ pcx = 1
    /\ stepResults = <<>>
    /\ successCount = 0
    /\ lastOp = NoOp
    /\ execResult = NoResult
    /\ RRest /\ PRest /\ FRest /\ IRest /\ CRest /\ URest

SpecTrim == InitTrim /\ [][NextExec]_vars

(* The second of the two trim steps has run. *)
TrimmedTwice == pcx = 3 /\ lastOp.action = "CLEAN_DATA"

(* C21: after the second run of a CLEAN_DATA trim step the sheet is as the *)
(* first run left it.                                                      *)
C21_TrimIdempotent == TrimmedTwice => sheet = lastOp.before

(* Both runs returned, and the column holds a value that only trimming a   *)
(* cell padded on both sides gives.                                        *)
C21_Witness ==
    /\ TrimmedTwice /\ ~lastOp.threw /\ successCount = 2
    /\ \E r \in 1..Len(sheet) : sheet[r][2] = Str(<<"P">>)
    /\ \E r \in 1..Len(sheet) : sheet[r][2] = Str(<<"7">>)

----------------------------------------------------------------------------
(* SpecDetect: detectHeaderRow on grids of up to MaxRows free rows,        *)
(* followed by rows without strings that push a last row of two strings to *)
(* the tenth row or past it.                                               *)

GridRows ==
    {<<EmptyCell, EmptyCell>>, <<Num(1), EmptyCell>>, <<Str(<<"a">>), Num(7)>>,
     <<Str(<<"a">>), Str(<<"b">>)>>}

FillerCounts == {0, HeaderScanLimit - MaxRows - 1, HeaderScanLimit - MaxRows}

Grids ==
    {g \in {top \o [i \in 1..k |-> <<Num(i), EmptyCell>>] \o last :
                top \in SeqsUpTo(GridRows, MaxRows), k \in FillerCounts,
                last \in {<<>>, <<<<Str(<<"x">>), Str(<<"y">>)>>>>}} :
        g # <<>>}

InitDetect ==
    /\ callIn \in Grids
    /\ callOut = NoCall
    /\ RRest /\ PRest /\ XRest /\ FRest /\ IRest /\ URest

DetectCall ==
    /\ ~callOut.done
    /\ callOut' = [done |-> TRUE, v |-> detectHeaderRow(callIn)]
    /\ UNCHANGED <<callIn, notC>>

NextDetect == DetectCall

SpecDetect == InitDetect /\ [][NextDetect]_vars

(* The number of non-empty string cells of the row with 0-based index i. *)
StringCells(i) ==
    Cardinality({c \in 1..Len(callIn[i + 1]) :
                    callIn[i + 1][c].t = "string" /\ callIn[i + 1][c].s # <<>>})

Scanned == 0..(Min(Len(callIn), HeaderScanLimit) - 1)

----------------------------------------------------------------------------
(* SpecLetters: the column letters getSheetSchema gives the headers of a   *)
(* sheet of up to MaxColumns columns, and the index columnLetterToIndex    *)
(* gives back for one of them.                                             *)

MaxColumns == 40

InitLetters ==
    /\ callIn \in {[count |-> n, index |-> i] : n \in 1..MaxColumns, i \in 0..(MaxColumns - 1)}
    /\ callIn.index < callIn.count
    /\ callOut = NoCall
    /\ RRest /\ PRest /\ XRest /\ FRest /\ IRest /\ URest

(* values[headerRowIndex].map(...) and columnLetterToIndex of one column *)
LettersCall ==
    /\ ~callOut.done
    /\ LET columns == [i \in 1..callIn.count |-> ColumnOfIndex(i - 1)]
       IN callOut' = [done |-> TRUE, columns |-> columns,
                      back |-> columnLetterToIndex(Str(columns[callIn.index + 1]))]
    /\ UNCHANGED <<callIn, notC>>

NextLetters == LettersCall

SpecLetters == InitLetters /\ [][NextLetters]_vars

(* C28: the column letters of the headers are pairwise distinct and        *)
(* columnLetterToIndex(headers[i].column) = i + 1 for every header index.  *)
C28_LettersMatchIndex ==
    callOut.done =>
        /\ \A i, j \in 1..callIn.count :
              i # j => callOut.columns[i] # callOut.columns[j]
        /\ callOut.back = callIn.index + 1

----------------------------------------------------------------------------
(* SpecChart: the chart decision of the chart branch (server.js 243-268)   *)
(* for a registry whose supported-type set is an input.                    *)

SupportedTypeSets ==
    {ChartSupportedTypes, {"bar", "line", "pie"}, {"column", "line", "pie"}, {"pie"}}

InitChart ==
    /\ callIn \in [classified : ClassifiedChartTypes, planned : PlannedChartTypes,
                    goal : PlannedChartGoals, series : SeriesCounts,
                    supported : SupportedTypeSets]
    /\ callOut = NoCall
    /\ RRest /\ PRest /\ XRest /\ FRest /\ IRest /\ URest

(* The type is chosen, lower-cased, validated and put through the pie rule *)
TypeOf(chosen, supported, series) ==
    IF chosen.t # "string"
    THEN [done |-> TRUE, threw |-> TRUE, chartType |-> ""]
    ELSE [done |-> TRUE, threw |-> FALSE,
          chartType |-> PieRule(ValidChartType(LowerName(chosen.s[1]), supported), series)]

ChartTypeCall ==
    /\ ~callOut.done
    /\ callOut' = TypeOf(ChooseChartType(callIn.classified, callIn.planned, callIn.goal),
                         callIn.supported, callIn.series)
    /\ UNCHANGED <<callIn, notC>>

NextChart == ChartTypeCall

SpecChart == InitChart /\ [][NextChart]_vars

(* C26: the chart type of the emitted CREATE_CHART step is a member of the *)
(* registry's supported-type set.                                          *)
C26_ChartTypeSupported ==
    (callOut.done /\ ~callOut.threw) => callOut.chartType \in callIn.supported

----------------------------------------------------------------------------
(* SpecFilter: one filter_data operation of a clean_data raw plan, from    *)
(* the compiler (server.js 284-325) over the response body to filterData   *)
(* (Code.gs 563-655) on a sheet.                                           *)

(* The keys written in the opMap literal. *)
ListedSynonyms ==
    {"not_equal_to", "not_equal", "is_not", "!=", "equal_to", "is", "==",
     "greater_than", ">", "less_than", "<"}

(* The case labels of filterData's switch. *)
RecognisedOperators ==
    {"equals", "not_equals", "contains", "not_contains", "greater", "less",
     "empty", "not_empty"}

FilterOperators ==
    {Name("equals"), Name("Equals"), Name("CONTAINS"), Name("between"), Name("=="),
     Name("Greater_Than"), Name("not_empty"), Name("constructor"), Undef}

(* res.json(...) followed by JSON.parse(responseText): a property whose    *)
(* value is a function is left out of the body and reads as undefined.     *)
OverJson(v) == IF v.t = "function" THEN Undef ELSE v

InitFilter ==
    /\ callIn \in [operator : FilterOperators, sheet : Sheets]
    /\ callOut = NoCall
    /\ RRest /\ PRest /\ XRest /\ FRest /\ IRest /\ URest

FilterCall ==
    /\ ~callOut.done
    /\ LET op == FlatOp("filter_data", CleanParams(Str(<<"B">>), callIn.operator, Str(<<"p">>)))
           emitted == CompileCleanOp(op, 0, <<>>).step.params
           received == [emitted EXCEPT !.operator = OverJson(@)]
       IN callOut' = [done |-> TRUE, emitted |-> emitted.operator,
                      received |-> received.operator,
                      out |-> filterData(callIn.sheet, received)]
    /\ UNCHANGED <<callIn, notC>>

NextFilter == FilterCall

SpecFilter == InitFilter /\ [][NextFilter]_vars

(* The operator filterData receives is none of its case labels. *)
Unrecognised(operator) ==
    operator.t # "string" \/ operator.s[1] \notin RecognisedOperators

(* The rows of the sheet below the detected header row. *)
FilterDataRows(sh) == getLastRow(sh) - (detectHeaderRow(getDataValues(sh)) + 2) + 1

(* C29: an operator that is not a listed synonym is emitted by the         *)
(* compiler unchanged; with an operator outside its eight case labels,     *)
(* filterData on a sheet with data rows deletes every data row, keeps the  *)
(* rows down to the header and returns a message instead of throwing.      *)
C29_UnknownOperatorDeletesAll ==
    callOut.done =>
        /\ (callIn.operator.t = "string" /\ LowerName(callIn.operator.s[1]) \notin ListedSynonyms)
               => callOut.emitted = callIn.operator
        /\ (Unrecognised(callOut.received) /\ FilterDataRows(callIn.sheet) >= 1)
               => /\ ~callOut.out.threw
                  /\ Len(callOut.out.deleted) = FilterDataRows(callIn.sheet)
                  /\ callOut.out.sheet =
                         SubSeq(callIn.sheet, 1, Len(callIn.sheet) - FilterDataRows(callIn.sheet))

(* The same with the names inherited from Object.prototype set aside from  *)
(* the operators that pass unchanged.                                      *)
UnknownOperatorDeletesAll_OwnKeys ==
    callOut.done =>
        /\ (/\ callIn.operator.t = "string"
            /\ LowerName(callIn.operator.s[1]) \notin ListedSynonyms \cup ObjectPrototypeKeys)
               => callOut.emitted = callIn.operator
        /\ (Unrecognised(callOut.received) /\ FilterDataRows(callIn.sheet) >= 1)
               => /\ ~callOut.out.threw
                  /\ Len(callOut.out.deleted) = FilterDataRows(callIn.sheet)
                  /\ callOut.out.sheet =
                         SubSeq(callIn.sheet, 1, Len(callIn.sheet) - FilterDataRows(callIn.sheet))

----------------------------------------------------------------------------
(* SpecQuery: queryValue (Code.gs 829-859) on a grid of getMaxRows() rows  *)
(* and getMaxColumns() columns, one service call per step.  A call of the  *)
(* spreadsheet service inside the try block may raise an exception.        *)

MaxGrid == 2

QueryCells == {EmptyCell, Num(7)}

QueryGrids ==
    UNION {[1..r -> [1..c -> QueryCells]] : r \in 1..MaxGrid, c \in 1..MaxGrid}

QueryFormulas == {Name("=1+1"), Name("=1/0")}

(* The value the recalculation leaves in a cell that holds the formula. *)
Evaluate(formula) == IF formula = Name("=1+1") THEN Num(2) ELSE Name("#DIV/0!")

(* A cell that holds a formula, and what getValue() reads from a cell. *)
FormulaCell(formula, value) == [t |-> "formula", s |-> formula.s, n |-> 0, v |-> value]
getValue(cell) == IF cell.t = "formula" THEN cell.v ELSE cell

getMaxRows(grid) == Len(grid)
getMaxColumns(grid) == Len(grid[1])

(* sheet.getLastColumn(): the last column that holds a value *)
getLastColumn(grid) ==
    LET filled == {c \in 1..getMaxColumns(grid) : \E r \in 1..Len(grid) : grid[r][c] # EmptyCell}
    IN IF filled = {} THEN 0 ELSE CHOOSE c \in filled : \A q \in filled : q <= c

(* tempCell = sheet.getRange(sheet.getMaxRows(), sheet.getMaxColumns()) *)
SetTempCell(grid, v) == [grid EXCEPT ![getMaxRows(grid)][getMaxColumns(grid)] = v]
TempCell(grid) == grid[getMaxRows(grid)][getMaxColumns(grid)]

InitQuery ==
    /\ callIn \in [grid : QueryGrids, formula : QueryFormulas,
                   fails : {"none", "setFormula", "flush", "getValue"}]
    /\ callOut = NoCall
    /\ RRest /\ PRest /\ XRest /\ FRest /\ IRest /\ URest

QueryStep(pc, grid, ops, value) ==
    [done |-> pc \in {"returned", "thrown"}, pc |-> pc, grid |-> grid, ops |-> ops,
     value |-> value]

(* tempCell.setFormula(params.formula) *)
QuerySetFormula ==
    /\ callOut = NoCall
    /\ callOut' = IF callIn.fails = "setFormula"
                  THEN QueryStep("catch", callIn.grid, <<"setFormula">>, Undef)
                  ELSE QueryStep("flush", SetTempCell(callIn.grid, FormulaCell(callIn.formula, Undef)),
                                 <<"setFormula">>, Undef)
    /\ UNCHANGED <<callIn, notC>>

(* SpreadsheetApp.flush() *)
QueryFlush ==
    /\ callOut # NoCall /\ callOut.pc = "flush"
    /\ callOut' = IF callIn.fails = "flush"
                  THEN QueryStep("catch", callOut.grid, Append(callOut.ops, "flush"), Undef)
                  ELSE QueryStep("getValue",
                                 SetTempCell(callOut.grid,
                                             FormulaCell(callIn.formula, Evaluate(callIn.formula))),
                                 Append(callOut.ops, "flush"), Undef)
    /\ UNCHANGED <<callIn, notC>>

(* const value = tempCell.getValue() *)
QueryGetValue ==
    /\ callOut # NoCall /\ callOut.pc = "getValue"
    /\ callOut' = IF callIn.fails = "getValue"
                  THEN QueryStep("catch", callOut.grid, Append(callOut.ops, "getValue"), Undef)
                  ELSE QueryStep("clearContent", callOut.grid, Append(callOut.ops, "getValue"),
                                 getValue(TempCell(callOut.grid)))
    /\ UNCHANGED <<callIn, notC>>

(* tempCell.clearContent(), the formatting and the return *)
QueryClear ==
    /\ callOut # NoCall /\ callOut.pc = "clearContent"
    /\ callOut' = QueryStep("returned", SetTempCell(callOut.grid, EmptyCell),
                            Append(callOut.ops, "clearContent"), callOut.value)
    /\ UNCHANGED <<callIn, notC>>

(* catch (e) { tempCell.clearContent(); throw ... } *)
QueryCatch ==
    /\ callOut # NoCall /\ callOut.pc = "catch"
    /\ callOut' = QueryStep("thrown", SetTempCell(callOut.grid, EmptyCell),
                            Append(callOut.ops, "clearContent"), Undef)
    /\ UNCHANGED <<callIn, notC>>

NextQuery == QuerySetFormula \/ QueryFlush \/ QueryGetValue \/ QueryClear \/ QueryCatch

SpecQuery == InitQuery /\ [][NextQuery]_vars

(* C22: queryValue writes the formula, flushes, reads and clears in that   *)
(* order; after it returns or throws the scratch cell is empty and every   *)
(* cell of the data range holds what it held before the call.              *)
C22_ScratchCellRestored ==
    callOut.done =>
        /\ callOut.pc = "returned"
               => callOut.ops = <<"setFormula", "flush", "getValue", "clearContent">>
        /\ TempCell(callOut.grid) = EmptyCell
        /\ \A r \in 1..getLastRow(callIn.grid), c \in 1..getLastColumn(callIn.grid) :
              callOut.grid[r][c] = callIn.grid[r][c]

----------------------------------------------------------------------------
(* SpecTemplate: the formulas addColumn (Code.gs 890-947) and addFormula   *)
(* (Code.gs 440-465) write to the data rows from one template.  Formulas   *)
(* are sequences of characters.                                            *)

(* \w of a regular expression *)
IsWordChar(c) == IsLetter(c) \/ IsDigit(c) \/ c = "_"

(* The last position of the run of letters, digits or word characters that *)
(* starts at position i.                                                   *)
LetterRunEnd(f, i) ==
    CHOOSE j \in i..Len(f) :
        (\A k \in i..j : IsLetter(f[k])) /\ (j = Len(f) \/ ~IsLetter(f[j + 1]))
DigitRunEnd(f, i) ==
    CHOOSE j \in i..Len(f) :
        (\A k \in i..j : IsDigit(f[k])) /\ (j = Len(f) \/ ~IsDigit(f[j + 1]))
WordEnd(f, i) ==
    CHOOSE j \in i..Len(f) :
        (\A k \in i..j : IsWordChar(f[k])) /\ (j = Len(f) \/ ~IsWordChar(f[j + 1]))

(* params.formula.match(/[A-Za-z]+(\d+)/): the digits of the leftmost run  *)
(* of letters that a digit follows, <<>> when there is no match.           *)
RECURSIVE RowMatch(_, _)
RowMatch(f, i) ==
    IF i > Len(f) THEN <<>>
    ELSE IF IsLetter(f[i])
    THEN LET j == LetterRunEnd(f, i)
         IN IF j < Len(f) /\ IsDigit(f[j + 1])
            THEN SubSeq(f, j + 1, DigitRunEnd(f, j + 1))
            ELSE RowMatch(f, j + 1)
    ELSE RowMatch(f, i + 1)

(* const baseRow = rowMatch ? rowMatch[1] : '1' *)
BaseRow(f) == IF RowMatch(f, 1) = <<>> THEN <<"1">> ELSE RowMatch(f, 1)

(* formula.replace(rowRegex, `$1${row}`) with rowRegex =                   *)
(* /([A-Za-z]+)<baseRow>\b/g, from position i on.                          *)
RECURSIVE ReplaceRows(_, _, _, _)
ReplaceRows(f, i, baseRow, row) ==
    IF i > Len(f) THEN <<>>
    ELSE IF IsLetter(f[i])
    THEN LET j == LetterRunEnd(f, i)
             e == j + Len(baseRow)
         IN IF /\ e <= Len(f)
               /\ SubSeq(f, j + 1, e) = baseRow
               /\ (e = Len(f) \/ ~IsWordChar(f[e + 1]))
            THEN SubSeq(f, i, j) \o row \o ReplaceRows(f, e + 1, baseRow, row)
            ELSE <<f[i]>> \o ReplaceRows(f, i + 1, baseRow, row)
    ELSE <<f[i]>> \o ReplaceRows(f, i + 1, baseRow, row)

(* formula.replace(new RegExp(pattern, 'g'), replacement) for a pattern    *)
(* that matches one literal text (a header of letters and digits between   *)
(* escaped brackets).                                                      *)
RECURSIVE ReplaceLiteral(_, _, _, _)
ReplaceLiteral(f, i, text, replacement) ==
    IF i > Len(f) THEN <<>>
    ELSE IF i + Len(text) - 1 <= Len(f) /\ SubSeq(f, i, i + Len(text) - 1) = text
    THEN replacement \o ReplaceLiteral(f, i + Len(text), text, replacement)
    ELSE <<f[i]>> \o ReplaceLiteral(f, i + 1, text, replacement)

(* headers.forEach((h, i) => ...) from the header with 0-based index i on  *)
RECURSIVE ReplaceHeaders(_, _, _, _)
ReplaceHeaders(f, headers, i, row) ==
    IF i >= Len(headers) THEN f
    ELSE LET h == headers[i + 1]
         IN ReplaceHeaders(IF Falsy(h) THEN f
                           ELSE ReplaceLiteral(f, 1, <<"[">> \o JsString(h) \o <<"]">>,
                                               ColumnOfIndex(i) \o row),
                           headers, i + 1, row)

(* sheet.insertColumnAfter(refCol) *)
insertColumnAfter(sh, refCol) ==
    [r \in 1..Len(sh) |->
        [c \in 1..(Len(sh[r]) + 1) |->
            IF c <= refCol THEN sh[r][c] ELSE IF c = refCol + 1 THEN EmptyCell ELSE sh[r][c - 1]]]

(* range.setValue / setFormula on the cell (row, col) of the sheet *)
SetSheetCell(sh, row, col, v) == [sh EXCEPT ![row] = SetCell(@, col, v)]

(* The for loop of both handlers: the formula of each row from startRow to *)
(* endRow is written to the column col.                                    *)
RECURSIVE WriteFormulas(_, _, _, _, _, _, _)
WriteFormulas(sh, template, headers, baseRow, col, row, endRow) ==
    IF row > endRow THEN sh
    ELSE LET named == ReplaceHeaders(template, headers, 0, NatToString(row))
             formula == ReplaceRows(named, 1, baseRow, NatToString(row))
         IN WriteFormulas(SetSheetCell(sh, row, col, Str(formula)), template, headers,
                          baseRow, col, row + 1, endRow)

(* addColumn without referenceColumn and position: the column goes after   *)
(* the last one.                                                           *)
addColumn(sh, params) ==
    LET refCol == getLastColumn(sh)
        inserted == insertColumnAfter(sh, refCol)
        newColIndex == refCol + 1
        values == getDataValues(inserted)
        headerRowIndex == detectHeaderRow(values)
        headerRow == headerRowIndex + 1
        titled == SetSheetCell(inserted, headerRow, newColIndex, params.columnName)
    IN IF Falsy(params.formula) THEN [sheet |-> titled, col |-> newColIndex, startRow |-> headerRow + 1]
       ELSE [sheet |-> WriteFormulas(titled, params.formula.s, values[headerRowIndex + 1],
                                     BaseRow(params.formula.s), newColIndex, headerRow + 1,
                                     getLastRow(titled)),
             col |-> newColIndex, startRow |-> headerRow + 1]

(* addFormula without startRow and endRow; it replaces no placeholder.     *)
addFormula(sh, params) ==
    LET col == columnLetterToIndex(params.targetColumn)
        startRow == detectHeaderRow(getDataValues(sh)) + 2
    IN [sheet |-> WriteFormulas(sh, params.formula.s, <<>>, BaseRow(params.formula.s), col,
                                startRow, getLastRow(sh)),
        col |-> col, startRow |-> startRow]

Templates ==
    {<<"=", "A", "2", "*", "1", "0">>,
     <<"=", "[", "i", "d", "]", "*", "[", "s", "t", "]">>,
     <<"=", "[", "i", "d", "]", "+", "B", "2">>,
     <<"=", "A", "2", "+", "$", "B", "$", "2">>,
     <<"=", "A", "2", "+", "B", "1", "2", "*", "2">>,
     <<"=", "S", "U", "M", "(", "A", "2", ":", "B", "2", ")", "/", "2">>,
     <<"=", "A", "2", "2", "+", "A", "2">>,
     <<"=", "A", "T", "A", "N", "2", "(", "A", "2", ",", "B", "2", ")">>,
     <<"=", "L", "O", "G", "1", "0", "(", "A", "2", ")">>,
     <<"=", "7">>}

TemplateSheets ==
    {top \o <<HeaderRow>> \o [i \in 1..n |-> <<Num(i), Num(7)>>] :
        top \in {<<>>, <<TitleRow>>}, n \in 1..MaxRows}

InitTemplate ==
    /\ callIn \in [handler : {"ADD_COLUMN", "ADD_FORMULA"}, formula : Templates,
                   sheet : TemplateSheets]
    /\ callOut = NoCall
    /\ RRest /\ PRest /\ XRest /\ FRest /\ IRest /\ URest

TemplateCall ==
    /\ ~callOut.done
    /\ LET out == IF callIn.handler = "ADD_COLUMN"
                  THEN addColumn(callIn.sheet,
                                 [columnName |-> Name("new"), formula |-> Str(callIn.formula)])
                  ELSE addFormula(callIn.sheet,
                                  [targetColumn |-> Name("C"), formula |-> Str(callIn.formula)])
       IN callOut' = [done |-> TRUE, sheet |-> out.sheet, col |-> out.col,
                      startRow |-> out.startRow]
    /\ UNCHANGED <<callIn, notC>>

NextTemplate == TemplateCall

SpecTemplate == InitTemplate /\ [][NextTemplate]_vars

(* A word that is a cell reference: letters followed by digits. *)
IsReference(w) ==
    \E k \in 1..(Len(w) - 1) :
        (\A q \in 1..k : IsLetter(w[q])) /\ (\A q \in (k + 1)..Len(w) : IsDigit(w[q]))

(* The template from position i on with every cell reference anchored at  *)
(* the base row re-anchored to the row and every other character kept: a   *)
(* word that a parenthesis follows is a function name.                     *)
RECURSIVE Reanchored(_, _, _, _)
Reanchored(f, i, baseRow, row) ==
    IF i > Len(f) THEN <<>>
    ELSE IF IsWordChar(f[i])
    THEN LET j == WordEnd(f, i)
             w == SubSeq(f, i, j)
             letters == SubSeq(f, i, LetterRunEnd(f, i))
         IN (IF /\ IsReference(w)
                /\ w = letters \o baseRow
                /\ (j = Len(f) \/ f[j + 1] # "(")
             THEN letters \o row ELSE w) \o Reanchored(f, j + 1, baseRow, row)
    ELSE <<f[i]>> \o Reanchored(f, i + 1, baseRow, row)

(* C23: the formula written to each data row r is the template with the   *)
(* [Header] placeholders replaced by <letter><r> and then every cell       *)
(* reference anchored at the base row re-anchored to r; numbers, other     *)
(* rows, $-anchored rows and function names are as in the template.        *)
C23_RowTemplating ==
    callOut.done =>
        \A r \in callOut.startRow..getLastRow(callIn.sheet) :
            callOut.sheet[r][callOut.col] =
                Str(Reanchored(ReplaceHeaders(callIn.formula,
                                              callIn.sheet[callOut.startRow - 1], 0,
                                              NatToString(r)),
                               1, BaseRow(callIn.formula), NatToString(r)))

----------------------------------------------------------------------------
(* SpecShape: executePlan on plans of one step in the nested shape         *)
(* { stepNumber, description, K: { ... } } and in the canonical shape.     *)

(* The step of kind k in the nested shape, with the keys given before K. *)
NestedStep(k, before) ==
    [stepNumber |-> 1, action |-> NoAction,
     description |-> Str(<<"Performing ", k.action>>), params |-> Undef,
     keys |-> before \o <<[key |-> k.action, value |-> k.params]>>]

(* { action: K, params: step[K] } with the step's bookkeeping fields *)
Canonical(step) ==
    [step EXCEPT !.action = step.keys[Len(step.keys)].key,
                 !.params = step.keys[Len(step.keys)].value,
                 !.keys = <<>>]

ShapeKinds ==
    {FilterStep(Name("equals"), Str(<<"p">>)),
     DeleteStep(Name("duplicate"), Null),
     CleanStep(Name("uppercase")),
     UnknownStep}

ShapePlans ==
    {<<NestedStep(k, <<>>)>> : k \in ShapeKinds}
        \cup {<<NestedStep(k, <<[key |-> "note", value |-> Undef]>>)>> : k \in ShapeKinds}
        \cup {MakePlan(<<k>>) : k \in ShapeKinds}
        \cup {<<[stepNumber |-> 1, action |-> NoAction, description |-> Str(<<"Performing ">>),
                 params |-> Undef, keys |-> <<>>]>>}

InitShape ==
    /\ sheet \in Sheets
    /\ plan \in ShapePlans
    /\ pcx = 1
    /\ stepResults = <<>>
    /\ successCount = 0
    /\ lastOp = NoOp
    /\ execResult = NoResult
    /\ RRest /\ PRest /\ FRest /\ IRest /\ CRest /\ URest

SpecShape == InitShape /\ [][NextExec]_vars

(* The step has run and has neither action nor params, and K is its only   *)
(* key beside stepNumber and description.                                  *)
NestedRan ==
    /\ pcx = 2
    /\ plan[1].action = NoAction /\ plan[1].params = Undef
    /\ Len(plan[1].keys) = 1

(* The entry executePlan pushes for a step whose handler ended as out. *)
EntryOf(step, out) ==
    IF out.threw THEN ErrorEntry(step, out.result) ELSE SuccessEntry(step, out.result)

(* C24: a step in the nested shape { K: params } leaves the sheet and the  *)
(* stepResults entry that the canonical step { action: K, params } leaves, *)
(* the entry's action field included.                                      *)
C24_NestedShapeEquivalent ==
    NestedRan =>
        /\ sheet = executeAction(lastOp.before, Canonical(plan[1])).sheet
        /\ stepResults[1] =
               EntryOf(Canonical(plan[1]), executeAction(lastOp.before, Canonical(plan[1])))

----------------------------------------------------------------------------
(* SpecUsers: invocations of getUserAccount (Code.gs 30-53) that run       *)
(* concurrently against the script property REGISTERED_USERS.  The code    *)
(* takes no lock, so other invocations can run between getProperty and     *)
(* setProperty.  registered is the list the property holds (an absent      *)
(* property reads as the empty list); a list of plain addresses comes back *)
(* from JSON.stringify and JSON.parse as it went in.                       *)

MaxCalls == 3

(* Session.getActiveUser().getEmail(): an address, or '' when the user's   *)
(* identity is not available to the script.                                *)
Emails == {"a@x", "b@x", ""}

Calls == 1..MaxCalls

InitUsers ==
    /\ registered \in {<<>>, <<"a@x">>}
    /\ upc \in [Calls -> {[pc |-> "start", email |-> e, after |-> {}] : e \in Emails}]
    /\ uread = [i \in Calls |-> <<>>]
    /\ uresult = [i \in Calls |-> [isNew |-> FALSE, email |-> ""]]
    /\ RRest /\ PRest /\ XRest /\ FRest /\ IRest /\ CRest

Elems(list) == {list[k] : k \in 1..Len(list)}

(* let users = props.getProperty('REGISTERED_USERS'); users = ... *)
UserRead(i) ==
    /\ upc[i].pc = "start"
    /\ uread' = [uread EXCEPT ![i] = registered]
    /\ upc' = [upc EXCEPT ![i].pc = "read",
                          ![i].after = {j \in Calls : upc[j].pc = "done"}]
    /\ UNCHANGED <<registered, uresult, notU>>

(* isNewUser && userEmail: users.push(userEmail); props.setProperty(...) *)
UserRegister(i) ==
    /\ upc[i].pc = "read"
    /\ upc[i].email \notin Elems(uread[i]) /\ upc[i].email # ""
    /\ registered' = Append(uread[i], upc[i].email)
    /\ uresult' = [uresult EXCEPT ![i] = [isNew |-> TRUE, email |-> upc[i].email]]
    /\ upc' = [upc EXCEPT ![i].pc = "done"]
    /\ UNCHANGED <<uread, notU>>

(* The return without a registration: the user is in the list that was     *)
(* read, or has no address.                                                *)
UserReturn(i) ==
    /\ upc[i].pc = "read"
    /\ ~(upc[i].email \notin Elems(uread[i]) /\ upc[i].email # "")
    /\ uresult' = [uresult EXCEPT ![i] =
                       [isNew |-> upc[i].email \notin Elems(uread[i]),
                        email |-> IF upc[i].email = "" THEN "Unknown User" ELSE upc[i].email]]
    /\ upc' = [upc EXCEPT ![i].pc = "done"]
    /\ UNCHANGED <<registered, uread, notU>>

NextUsers == \E i \in Calls : UserRead(i) \/ UserRegister(i) \/ UserReturn(i)

SpecUsers == InitUsers /\ [][NextUsers]_vars

Occurrences(list, e) == Cardinality({k \in 1..Len(list) : list[k] = e})

(* C30: once the invocations have returned, the stored list holds every    *)
(* caller's non-empty address exactly once, and a call that began after a  *)
(* call of the same user had returned reports isNew false.                 *)
C30_NoRegistrationLost ==
    /\ (\A i \in Calls : upc[i].pc = "done") =>
           \A i \in Calls : upc[i].email # "" => Occurrences(registered, upc[i].email) = 1
    /\ \A i \in Calls :
           (upc[i].pc = "done" /\ upc[i].email # ""
               /\ \E j \in upc[i].after : upc[j].email = upc[i].email)
           => ~uresult[i].isNew

====
